---- MODULE Spec2Model ----
(***************************************************************************)
(* Model of the harvesting/synchronisation engine of Gluster-Dashboard:    *)
(*   GrimoireELK/grimoire/ocean/elastic.py   ElasticOcean.feed             *)
(*   perceval/backend.py                     Backend, metadata, uuid       *)
(*   perceval/backends/bugzilla.py           Bugzilla connector            *)
(* Strings are sequences of one-character strings, so that joining and     *)
(* comparing them is computed and not assumed.                             *)
(***************************************************************************)
EXTENDS Integers, Sequences, FiniteSets, TLC

\* ------------------------------------------------------------------ bounds
MaxRec == 3        \* logical records the source can hold (ids 1..MaxRec)
MaxTime == 2       \* source update times range over 1..MaxTime
MaxBulk == 2       \* the store's max_items_bulk ranges over 1..MaxBulk
MaxPasses == 2     \* feed passes run in one behaviour

RecIds == 1..MaxRec
Times == 1..MaxTime

\* ------------------------------------------------------------- strings
Digits == <<"1", "2", "3", "4", "5", "6", "7", "8", "9">>

\* the identifier string of logical record r, as the source reports it
IdStr(r) == <<Digits[r]>>

\* the connector's origin, and another origin sharing the same index
Origin == <<"h">>
OtherOrigin == <<"g">>

\* --------------------------------------------------- argument values
\* A value handed to uuid: a str (its characters), or a value of another
\* type (an int, None) shown by its text.
Str(s) == [type |-> "str", val |-> s]
PyInt(s) == [type |-> "int", val |-> s]
PyNone == [type |-> "NoneType", val |-> <<>>]

\* isinstance(v, str)
isinstance_str(v) == v.type = "str"

\* check_value(v) of uuid returns v: it raises ValueError neither for the
\* type nor for the emptiness of v
check_value(v) == isinstance_str(v) /\ v.val # <<>>

RECURSIVE JoinColon(_)
\* ':'.join(args)
JoinColon(args) ==
    IF Len(args) = 0 THEN <<>>
    ELSE IF Len(args) = 1 THEN args[1]
    ELSE args[1] \o <<":">> \o JoinColon(Tail(args))

\* the exception uuid raises, in the place of a digest
ValueError == <<"ValueError">>

\* uuid that joins the text of whatever values it is given
uuidUnchecked(args) == JoinColon([i \in 1..Len(args) |-> args[i].val])

\* uuid(*args): the digest of the arguments joined with ':'; SHA-1 is taken
\* as injective, so the digest is represented by the joined string itself.
\* An argument that is not a non-empty str raises ValueError.
uuid(args) ==
    IF \E i \in 1..Len(args) : ~check_value(args[i]) THEN ValueError
    ELSE JoinColon([i \in 1..Len(args) |-> args[i].val])

\* ------------------------------------------------------ optional values
\* Python's None is the empty sequence, a present value x is <<x>>.
None == <<>>
Some(x) == <<x>>

\* Python truthiness of feed's optional arguments: None is false, and so is
\* the integer 0 (an offset of 0), every datetime is true.
TruthyDate(d) == d # None
TruthyOffset(o) == o # None /\ o[1] # 0

\* ----------------------------------------------------------- datetimes
\* A datetime is a clock reading t with its tzinfo ("none" = naive).
DateTime(t, tz) == [t |-> t, tzinfo |-> tz]

\* datetime.replace(tzinfo=None): the same clock reading, made naive
replace_tzinfo_None(d) == [d EXCEPT !.tzinfo = "none"]

\* datetime.fromtimestamp(epoch): a naive datetime
fromtimestamp(e) == DateTime(e, "none")

\* datetime.isoformat(): the text of the reading; a naive datetime has no
\* offset suffix
isoformat(d) == [iso |-> d.t, suffix |-> IF d.tzinfo = "none" THEN "" ELSE "+00:00"]

\* DEFAULT_DATETIME, the connector's default lower bound (the epoch start)
DEFAULT_DATETIME == DateTime(0, "none")

VARIABLES
    \* --- construction time configuration
    fetch_cache,      \* ElasticOcean.fetch_cache
    project,          \* ElasticOcean.project (None or a tag)
    hasFromDate,      \* 'from_date' in inspect.signature(backend.fetch).parameters
    newestFirst,      \* the connector's fetch yields the latest change first
    dropSet,          \* records the drop_item hook of the ocean class rejects
    fixSetsId,        \* the _fix_item hook of the ocean class fills the id field
    max_items_bulk,   \* elastic.max_items_bulk
    passLimit,        \* passes run in one behaviour (MaxPasses, or one more)
    \* --- the world
    source,           \* record id -> source update time (0: no such record)
    store,            \* the index: document key -> document
    cache,            \* the connector's replay cache: raw records in order
    \* --- one feed pass
    pc,               \* "idle", "iter" (consuming the generator), "done", "aborted"
    last_update,      \* self.last_update
    items,            \* what the connector's generator has still to yield
    items_pack,       \* the batch being accumulated
    drop,             \* the dropped counter
    \* --- what a pass did (observed, never read by the code)
    nPass,            \* passes started; also the wall clock read by the wrapper
    arg_from_date,    \* the from_date argument of this pass
    arg_offset,       \* the offset argument of this pass
    calls,            \* connector calls made by this pass
    yielded,          \* wrapped records this pass received, in order
    upserts,          \* batches handed to bulk_upload_sync by this pass, in order
    error,            \* what the pass raised ("" if nothing)
    submitted,        \* uuid -> the record last handed to bulk_upload_sync for it
    boundaryQuery,    \* the (field, filter) of this pass's boundary query
    storeAtStart,     \* the index when this pass started
    quietRerun,       \* this pass follows a complete live pass without override
                      \* or offset, over a source unchanged since that pass began
    prevYielded,      \* the raw records that pass received (if quietRerun)
    srcTouched,       \* the source changed since the current pass started
    afterAbort,       \* this pass follows a live pass without override or
                      \* offset that aborted, over a source unchanged since
                      \* that pass began
    \* --- the Bugzilla connector (its own specification, BzSpec; there the
    \*     variable cache holds the raw blocks Cache.store appended)
    cache_given,      \* Bugzilla.cache is a Cache (not None)
    max_bugs,         \* Bugzilla.max_bugs
    page_limit,       \* rows the server puts in one list page
    version,          \* BugzillaClient.version (None until fetched)
    cache_queue,      \* Backend.cache_queue
    op,               \* the generator being consumed: "fetch", "fetch_from_cache"
    bpc,              \* where that generator stands
    list_from,        \* from_date of the next list query
    buglist,          \* the candidate list built so far
    chunk_i,          \* i of the chunk loop
    bugs,             \* parsed bugs of the current chunk still to handle
    cache_items,      \* blocks the replay has still to read
    out,              \* wrapped records the consumer received, in order
    trace,            \* requests sent, flush calls and cache stores of the
                      \* last live fetch, in order
    bz_error,         \* what the generator raised ("" if nothing)
    nOps,             \* generators started
    intact,           \* no block of the cache was lost outside the connector
    fetched,          \* records of the last fully consumed live fetch
    cacheBase,        \* blocks the cache held when that fetch began
    version_ok,       \* the server's metadata reply matches VERSION_REGEX
    cmd_pc,           \* BugzillaCommand: "none" (no command was built),
                      \* "command" (built, run not over), "completed", "failed"
    cache_backup,     \* what Cache.backup() last saved
    recovered,        \* the command's run called Cache.recover()
    suspended,        \* the frame of another fetch generator of the same
                      \* connector, waiting at its yield (None if there is none)
    purged,           \* blocks the queue held when the last fetch purged it
    \* --- the read-back iterator (its own specification, IterSpec; there the
    \*     variable store holds documents under integer keys)
    self_from_date,   \* ElasticOcean.from_date
    elastic_scroll_id,\* ElasticOcean.elastic_scroll_id
    elastic_page,     \* ElasticOcean.elastic_page
    iter_items,       \* ElasticOcean.iter_items
    es_cursor,        \* the store's scroll cursor: its token and what is left
    tokenPolicy,      \* when the store's reply carries a token: "always" (as
                      \* Elasticsearch does), "more" (while documents are
                      \* left) or "hits" (when the page is not empty)
    it_pc,            \* "new", "iterating", "stopped", "raised"
    it_out,           \* documents yielded since the last __iter__
    it_requests,      \* requests sent to the store since the last __iter__
    it_error,         \* what the iterator raised ("" if nothing)
    nIter,            \* calls of __iter__
    \* --- the identity generator (its own specification, UuidSpec)
    uu_in,            \* the calls still to be made, each with its arguments
    uu_out            \* the calls made, each with what it returned or raised

cfgVars == <<fetch_cache, project, hasFromDate, newestFirst, dropSet, fixSetsId,
             max_items_bulk, passLimit>>
worldVars == <<source, store, cache>>
passVars == <<pc, last_update, items, items_pack, drop>>
obsVars == <<nPass, arg_from_date, arg_offset, calls, yielded, upserts, error,
             submitted,
             boundaryQuery, storeAtStart, quietRerun, prevYielded, srcTouched,
             afterAbort>>
bzVars == <<cache_given, max_bugs, page_limit, version, cache_queue, op, bpc,
           list_from, buglist, chunk_i, bugs, cache_items, out, trace,
           bz_error, nOps, intact, fetched, cacheBase,
           version_ok, cmd_pc, cache_backup, recovered, suspended, purged>>
itVars == <<self_from_date, elastic_scroll_id, elastic_page, iter_items, es_cursor,
           tokenPolicy, it_pc, it_out, it_requests, it_error, nIter>>
uuVars == <<uu_in, uu_out>>
vars == <<cfgVars, worldVars, passVars, obsVars, bzVars, itVars, uuVars>>

\* ------------------------------------------------------- the connector
\* a raw record as the source reports it: its identifier and update time
RawRecord(r, src) == [id |-> IdStr(r), updated |-> src[r]]

\* Backend.metadata_id / Backend.metadata_updated_on of the connector
metadata_id(data) == data.id
metadata_updated_on(data) == data.updated

\* the wrapper of the metadata decorator, applied to one raw record at wall
\* clock `now`
metadata(data, now) ==
    [backend_name |-> "Backend", backend_version |-> "0.1",
     perceval_version |-> "v", timestamp |-> now, origin |-> Origin,
     uuid |-> uuid(<<Str(Origin), Str(metadata_id(data))>>),
     updated_on |-> metadata_updated_on(data),
     data |-> data]

\* r comes before q in the source's list order (change time, then id)
Before(r, q, src) == src[r] < src[q] \/ (src[r] = src[q] /\ r <= q)

RECURSIVE Ordered(_, _)
\* the records of S as a list in the source's order
Ordered(S, src) ==
    IF S = {} THEN <<>>
    ELSE LET m == CHOOSE r \in S : \A q \in S : Before(r, q, src)
         IN <<RawRecord(m, src)>> \o Ordered(S \ {m}, src)

\* the records the source lists for a lower bound: those changed at or after
\* it (the bound is inclusive: list paging adds one second to the last change
\* time seen in order not to list that record again)
Listed(from_date, src) ==
    Ordered({r \in RecIds : src[r] # 0 /\ src[r] >= from_date.t}, src)

\* seq, last element first
Reverse(seq) == [i \in 1..Len(seq) |-> seq[Len(seq) + 1 - i]]

\* the order in which the connector's fetch yields what the source lists:
\* feed takes any connector, and not every source lists by change time
InYieldOrder(seq) == IF newestFirst THEN Reverse(seq) ELSE seq

\* what the generator returned by a connector call will yield
\*   fetch(from_date=d), fetch(offset=o), fetch(), fetch_from_cache()
ConnectorResult(call, src, cch) ==
    IF call.method = "fetch_from_cache" THEN cch
    ELSE IF call.from_date # None THEN InYieldOrder(Listed(call.from_date[1], src))
    ELSE IF call.offset # None
         THEN LET all == InYieldOrder(Listed(DEFAULT_DATETIME, src))
              IN SubSeq(all, call.offset[1] + 1, Len(all))
    ELSE InYieldOrder(Listed(DEFAULT_DATETIME, src))

\* --------------------------------------------------- the index store
\* the empty index
EmptyStore == [k \in {} |-> None]

\* the index with document doc written under key k (an existing key is
\* overwritten)
Put(st, k, doc) == [x \in DOMAIN st \cup {k} |-> IF x = k THEN doc ELSE st[x]]

\* elastic.get_last_date(field, filter_): the greatest value of `field` among
\* the documents whose filter_.name equals filter_.value, None if there is none
get_last_date(field, filter_, st) ==
    LET hits == {k \in DOMAIN st :
                    filter_ = None \/ st[k][filter_[1].name] = filter_[1].value}
    IN IF hits = {} THEN None
       ELSE LET top == CHOOSE k \in hits :
                           \A q \in hits : st[q][field].iso <= st[k][field].iso
            IN Some(DateTime(st[top][field].iso, "utc"))

RECURSIVE bulk_upload_sync(_, _, _)
\* elastic.bulk_upload_sync(items, field_id): each record is written under
\* the value of its field field_id; the index after the call
bulk_upload_sync(json_items, field_id, st) ==
    IF json_items = <<>> THEN st
    ELSE bulk_upload_sync(Tail(json_items), field_id,
                          Put(st, Head(json_items)[field_id], Head(json_items)))

\* the lookup item[field_id] of bulk_upload_sync fails (KeyError) on a record
\* that has no such field
UploadRaises(json_items, field_id) ==
    \E i \in 1..Len(json_items) : field_id \notin DOMAIN json_items[i]

\* ---------------------------------------------------------- ElasticOcean
get_field_date == "metadata__updated_on"

get_field_unique_id == "ocean-unique-id"

\* drop_item(item): the base class keeps every record (dropSet = {}); an
\* ocean class overriding the hook rejects the records of its dropSet
drop_item(item) == \E r \in dropSet : item.data.id = IdStr(r)

\* the value an ocean class gives its records under "ocean-unique-id": the
\* source's record id and the origin
OceanUniqueId(item) == item.data.id \o <<"_">> \o item.origin

\* _fix_item(item): a no-op in the base class; the hook through which an
\* ocean class fills the id field of its records
_fix_item(item) ==
    IF fixSetsId THEN item @@ ("ocean-unique-id" :> OceanUniqueId(item))
    ELSE item

\* add_update_date(item)
add_update_date(item) ==
    item @@ [metadata__updated_on |-> isoformat(fromtimestamp(item.updated_on)),
             metadata__timestamp |-> isoformat(fromtimestamp(item.timestamp))]

\* lines 152-155 of feed: what feed does to a record before batching it
Prepared(item) ==
    LET fixed == _fix_item(add_update_date(item))
    IN IF project # None THEN fixed @@ [project |-> project[1]] ELSE fixed

\* the filter of the boundary query (lines 113-114)
FeedFilterNone == None
FeedFilter == Some([name |-> "origin", value |-> Origin])

\* get_last_update_from_es(_filter)
get_last_update_from_es(filter_, st) ==
    get_last_date(get_field_date, filter_, st)

\* lines 116-129 of feed: the lower bound feed keeps (None: no bound)
LowerBoundBoundaryFirst(boundary, from_date) ==
    LET forced == IF TruthyDate(boundary) THEN boundary ELSE from_date
    IN IF ~hasFromDate THEN None ELSE forced
LowerBoundIgnoringSignature(boundary, from_date) ==
    IF TruthyDate(from_date) THEN from_date ELSE boundary
LowerBound(boundary, from_date) ==
    LET forced == IF TruthyDate(from_date) THEN from_date ELSE boundary
    IN IF ~hasFromDate THEN None ELSE forced

FetchCall(fd, off) == [method |-> "fetch", from_date |-> fd, offset |-> off]
CacheCall == [method |-> "fetch_from_cache", from_date |-> None, offset |-> None]

\* lines 135-148 of feed: the connector calls the pass makes
ConnectorCallsBoth(lu, offset) ==
    IF fetch_cache THEN <<CacheCall, FetchCall(None, None)>>
    ELSE <<FetchCall(None, None)>>
ConnectorCallsDefaultDate(lu, offset) ==
    IF fetch_cache THEN <<CacheCall>>
    ELSE IF ~TruthyOffset(offset)
         THEN <<FetchCall(Some(replace_tzinfo_None(
                    IF TruthyDate(lu) THEN lu[1] ELSE DEFAULT_DATETIME)), None)>>
    ELSE <<FetchCall(None, offset)>>
ConnectorCallsDateFirst(lu, offset) ==
    IF fetch_cache THEN <<CacheCall>>
    ELSE IF TruthyDate(lu)
         THEN <<FetchCall(Some(replace_tzinfo_None(lu[1])), None)>>
    ELSE IF TruthyOffset(offset) THEN <<FetchCall(None, offset)>>
    ELSE <<FetchCall(None, None)>>
ConnectorCalls(lu, offset) ==
    IF fetch_cache THEN <<CacheCall>>
    ELSE IF TruthyDate(lu) /\ ~TruthyOffset(offset)
         THEN <<FetchCall(Some(replace_tzinfo_None(lu[1])), None)>>
    ELSE IF TruthyOffset(offset) THEN <<FetchCall(None, offset)>>
    ELSE <<FetchCall(None, None)>>

\* _items_to_es(json_items): nothing on an empty batch, else one call of
\* bulk_upload_sync with the id field; the index, the calls made so far and
\* whether the call raised
_items_to_es(json_items, st, ups) ==
    IF Len(json_items) = 0
    THEN [store |-> st, upserts |-> ups, raised |-> FALSE]
    ELSE LET field_id == get_field_unique_id
             called == Append(ups, [items |-> json_items, field_id |-> field_id])
         IN IF UploadRaises(json_items, field_id)
            THEN [store |-> st, upserts |-> called, raised |-> TRUE]
            ELSE [store |-> bulk_upload_sync(json_items, field_id, st),
                  upserts |-> called, raised |-> FALSE]

\* lines 152-162 of feed: the body of the loop for one record received from
\* the connector
FeedStepLateFlush(item, pack, drp, st, ups) ==
    LET it == Prepared(item)
        full == Len(pack) > max_items_bulk
        fl == IF full THEN _items_to_es(pack, st, ups)
              ELSE [store |-> st, upserts |-> ups, raised |-> FALSE]
        pack1 == IF full THEN <<>> ELSE pack
    IN IF fl.raised THEN [pack |-> pack, drop |-> drp] @@ fl
       ELSE IF ~drop_item(it) THEN [pack |-> Append(pack1, it), drop |-> drp] @@ fl
       ELSE [pack |-> pack1, drop |-> drp + 1] @@ fl
FeedStepDropFirst(item, pack, drp, st, ups) ==
    LET it == Prepared(item)
        full == Len(pack) >= max_items_bulk
        fl == IF full THEN _items_to_es(pack, st, ups)
              ELSE [store |-> st, upserts |-> ups, raised |-> FALSE]
        pack1 == IF full THEN <<>> ELSE pack
    IN IF fl.raised THEN [pack |-> pack, drop |-> drp] @@ fl
       ELSE IF ~drop_item(it) THEN [pack |-> <<it>> \o pack1, drop |-> drp] @@ fl
       ELSE [pack |-> pack1, drop |-> drp + 1] @@ fl
FeedStep(item, pack, drp, st, ups) ==
    LET it == Prepared(item)
        full == Len(pack) >= max_items_bulk
        fl == IF full THEN _items_to_es(pack, st, ups)
              ELSE [store |-> st, upserts |-> ups, raised |-> FALSE]
        pack1 == IF full THEN <<>> ELSE pack
    IN IF fl.raised THEN [pack |-> pack, drop |-> drp] @@ fl
       ELSE IF ~drop_item(it) THEN [pack |-> Append(pack1, it), drop |-> drp] @@ fl
       ELSE [pack |-> pack1, drop |-> drp + 1] @@ fl

RECURSIVE Latest(_, _)
\* sub with each record of the batch entered under its uuid
Latest(sub, batch) ==
    IF batch = <<>> THEN sub
    ELSE Latest(Put(sub, Head(batch).uuid, Head(batch)), Tail(batch))

\* the record of what was handed to bulk_upload_sync, after a step that took
\* the calls from `before` to `after` (at most one call more)
Handed(sub, before, after) ==
    IF Len(after) > Len(before) THEN Latest(sub, after[Len(after)].items) ELSE sub

\* ----------------------------------------------------------- the state
\* a document another feeder wrote for another origin of the same index
ForeignDoc ==
    Prepared([backend_name |-> "Backend", backend_version |-> "0.1",
              perceval_version |-> "v", timestamp |-> 0, origin |-> OtherOrigin,
              uuid |-> uuid(<<Str(OtherOrigin), Str(IdStr(1))>>), updated_on |-> MaxTime,
              data |-> [id |-> IdStr(1), updated |-> MaxTime]])

\* the override timestamps a caller passes: none, or a timezone-aware one
\* the identity generator with no call asked of it
UuidUnused == uu_in = <<>> /\ uu_out = <<>>

\* the read-back iterator before __iter__ was ever called
IteratorUnused ==
    /\ self_from_date = None
    /\ elastic_scroll_id = None
    /\ elastic_page = 0
    /\ iter_items = <<>>
    /\ es_cursor = [id |-> 0, rest |-> <<>>]
    /\ tokenPolicy = "always"
    /\ it_pc = "new"
    /\ it_out = <<>>
    /\ it_requests = <<>>
    /\ it_error = ""
    /\ nIter = 0

\* the Bugzilla connector before any generator of it was started, built
\* without a cache and with the default chunk size clamped to the model
ConnectorUnused ==
    /\ cache_given = FALSE
    /\ max_bugs = 1
    /\ page_limit = 1
    /\ version = None
    /\ cache_queue = <<>>
    /\ op = "none"
    /\ bpc = "idle"
    /\ list_from = 0
    /\ buglist = <<>>
    /\ chunk_i = 0
    /\ bugs = <<>>
    /\ cache_items = <<>>
    /\ out = <<>>
    /\ trace = <<>>
    /\ bz_error = ""
    /\ nOps = 0
    /\ intact = TRUE
    /\ fetched = None
    /\ cacheBase = 0
    /\ version_ok = TRUE
    /\ suspended = None
    /\ purged = 0
    /\ cmd_pc = "none"
    /\ cache_backup = <<>>
    /\ recovered = FALSE

DateArgs == {None, Some(DateTime(1, "utc"))}
OffsetArgs == {None, Some(0), Some(1)}

Init ==
    /\ fetch_cache = FALSE
    /\ project \in {None, Some("p")}
    /\ hasFromDate \in BOOLEAN
    /\ newestFirst = FALSE
    /\ dropSet \in SUBSET RecIds
    /\ fixSetsId \in BOOLEAN
    /\ max_items_bulk \in 1..MaxBulk
    /\ passLimit = MaxPasses
    /\ source = [r \in RecIds |-> 0]
    /\ store = IF fixSetsId
               THEN Put(EmptyStore, ForeignDoc[get_field_unique_id], ForeignDoc)
               ELSE EmptyStore
    /\ cache = <<>>
    /\ pc = "idle"
    /\ last_update = None
    /\ items = <<>>
    /\ items_pack = <<>>
    /\ drop = 0
    /\ nPass = 0
    /\ arg_from_date = None
    /\ arg_offset = None
    /\ calls = <<>>
    /\ yielded = <<>>
    /\ upserts = <<>>
    /\ error = ""
    /\ submitted = EmptyStore
    /\ boundaryQuery = None
    /\ storeAtStart = EmptyStore
    /\ quietRerun = FALSE
    /\ afterAbort = FALSE
    /\ prevYielded = {}
    /\ srcTouched = FALSE
    /\ ConnectorUnused
    /\ IteratorUnused
    /\ UuidUnused

\* the source creates or changes record r at time t, between two passes; its
\* change times never go back
SourceUpdate(r, t) ==
    /\ UNCHANGED <<bzVars, itVars, uuVars>>
    /\ pc # "iter"
    /\ nPass < passLimit
    /\ \A q \in RecIds : source[q] <= t
    /\ source[r] # t
    /\ source' = [source EXCEPT ![r] = t]
    /\ srcTouched' = TRUE
    /\ UNCHANGED <<cfgVars, store, cache, passVars, nPass, arg_from_date,
                   arg_offset, calls, yielded, upserts, error, submitted,
                   boundaryQuery, storeAtStart, quietRerun, prevYielded,
                   afterAbort>>

\* ElasticOcean(perceval_backend, fetch_cache=fc, project=project): a later
\* run builds a new feeder on the same connector, store and cache; it has
\* made no pass yet
__init__(fc) ==
    /\ UNCHANGED <<bzVars, itVars, uuVars>>
    /\ pc \in {"done", "aborted"}
    /\ nPass < passLimit
    /\ fc # fetch_cache
    /\ fetch_cache' = fc
    /\ last_update' = None
    /\ pc' = "idle"
    /\ items' = <<>>
    /\ items_pack' = <<>>
    /\ drop' = 0
    /\ arg_from_date' = None
    /\ arg_offset' = None
    /\ calls' = <<>>
    /\ yielded' = <<>>
    /\ upserts' = <<>>
    /\ error' = ""
    /\ boundaryQuery' = None
    /\ storeAtStart' = EmptyStore
    /\ quietRerun' = FALSE
    /\ afterAbort' = FALSE
    /\ prevYielded' = {}
    /\ srcTouched' = FALSE
    /\ UNCHANGED <<project, hasFromDate, newestFirst, dropSet, fixSetsId, max_items_bulk,
                   passLimit,
                   worldVars, nPass, submitted>>

\* feed(from_date, offset), lines 112-148: the boundary query, the choice of
\* the lower bound and the connector call
FeedStart(from_date, offset) ==
    /\ UNCHANGED <<bzVars, itVars, uuVars>>
    /\ pc # "iter"
    /\ nPass < passLimit
    /\ LET boundary == get_last_update_from_es(FeedFilter, store)
           cs == ConnectorCalls(LowerBound(boundary, from_date), offset)
       IN /\ last_update' = boundary
          /\ calls' = cs
          /\ items' = ConnectorResult(cs[Len(cs)], source, cache)
    /\ boundaryQuery' = Some([field |-> get_field_date, filter |-> FeedFilter])
    /\ items_pack' = <<>>
    /\ drop' = 0
    /\ pc' = "iter"
    /\ nPass' = nPass + 1
    /\ arg_from_date' = from_date
    /\ arg_offset' = offset
    /\ yielded' = <<>>
    /\ upserts' = <<>>
    /\ error' = ""
    /\ storeAtStart' = store
    /\ LET quiet == /\ pc = "done" /\ ~fetch_cache /\ ~srcTouched
                     /\ arg_from_date = None /\ arg_offset = None
       IN /\ quietRerun' = quiet
          /\ prevYielded' = IF quiet THEN {yielded[i].data : i \in 1..Len(yielded)}
                            ELSE {}
    /\ afterAbort' = (/\ pc = "aborted" /\ ~fetch_cache /\ ~srcTouched
                      /\ arg_from_date = None /\ arg_offset = None)
    /\ srcTouched' = FALSE
    /\ UNCHANGED <<cfgVars, source, store, cache, submitted>>

\* one turn of the loop of line 149: the connector yields its next record,
\* wrapped, and feed batches it (lines 150-162)
FeedItemCachingKept ==
    /\ UNCHANGED <<bzVars, itVars, uuVars>>
    /\ pc = "iter"
    /\ items # <<>>
    /\ LET item == metadata(Head(items), nPass)
           res == FeedStep(item, items_pack, drop, store, upserts)
       IN /\ yielded' = Append(yielded, item)
          /\ items_pack' = res.pack
          /\ drop' = res.drop
          /\ store' = res.store
          /\ upserts' = res.upserts
          /\ submitted' = Handed(submitted, upserts, res.upserts)
          /\ pc' = IF res.raised THEN "aborted" ELSE "iter"
          /\ error' = IF res.raised THEN "KeyError" ELSE ""
    /\ items' = Tail(items)
    /\ cache' = IF /\ calls[Len(calls)].method = "fetch"
                   /\ ~drop_item(Prepared(metadata(Head(items), nPass)))
                THEN Append(cache, Head(items)) ELSE cache
    /\ UNCHANGED <<cfgVars, source, last_update, nPass, arg_from_date,
                   arg_offset, calls, boundaryQuery, storeAtStart, quietRerun,
                   prevYielded, srcTouched,
                   afterAbort>>
FeedItem ==
    /\ UNCHANGED <<bzVars, itVars, uuVars>>
    /\ pc = "iter"
    /\ items # <<>>
    /\ LET item == metadata(Head(items), nPass)
           res == FeedStep(item, items_pack, drop, store, upserts)
       IN /\ yielded' = Append(yielded, item)
          /\ items_pack' = res.pack
          /\ drop' = res.drop
          /\ store' = res.store
          /\ upserts' = res.upserts
          /\ submitted' = Handed(submitted, upserts, res.upserts)
          /\ pc' = IF res.raised THEN "aborted" ELSE "iter"
          /\ error' = IF res.raised THEN "KeyError" ELSE ""
    /\ items' = Tail(items)
    /\ cache' = IF calls[Len(calls)].method = "fetch"
                THEN Append(cache, Head(items)) ELSE cache
    /\ UNCHANGED <<cfgVars, source, last_update, nPass, arg_from_date,
                   arg_offset, calls, boundaryQuery, storeAtStart, quietRerun,
                   prevYielded, srcTouched,
                   afterAbort>>

\* the connector raises (a network or parse failure) when feed asks it for
\* the next record: the exception leaves feed
ConnectorRaisesFlushing ==
    /\ UNCHANGED <<bzVars, itVars, uuVars>>
    /\ pc = "iter"
    /\ pc' = "aborted"
    /\ error' = "ConnectorError"
    /\ LET res == _items_to_es(items_pack, store, upserts)
       IN /\ store' = res.store
          /\ upserts' = res.upserts
          /\ submitted' = Handed(submitted, upserts, res.upserts)
    /\ UNCHANGED <<cfgVars, source, cache, last_update, items, items_pack, drop,
                   nPass, arg_from_date, arg_offset, calls, yielded,
                   boundaryQuery, storeAtStart, quietRerun, prevYielded,
                   srcTouched,
                   afterAbort>>
ConnectorRaises ==
    /\ UNCHANGED <<bzVars, itVars, uuVars>>
    /\ pc = "iter"
    /\ pc' = "aborted"
    /\ error' = "ConnectorError"
    /\ UNCHANGED <<cfgVars, worldVars, last_update, items, items_pack, drop,
                   nPass, arg_from_date, arg_offset, calls, yielded, upserts,
                   submitted, boundaryQuery, storeAtStart, quietRerun,
                   prevYielded, srcTouched,
                   afterAbort>>

\* the generator is exhausted: the remainder is flushed (line 163) and feed
\* returns
FeedFinish ==
    /\ UNCHANGED <<bzVars, itVars, uuVars>>
    /\ pc = "iter"
    /\ items = <<>>
    /\ LET res == _items_to_es(items_pack, store, upserts)
       IN /\ store' = res.store
          /\ upserts' = res.upserts
          /\ submitted' = Handed(submitted, upserts, res.upserts)
          /\ pc' = IF res.raised THEN "aborted" ELSE "done"
          /\ error' = IF res.raised THEN "KeyError" ELSE ""
    /\ UNCHANGED <<cfgVars, source, cache, last_update, items, items_pack, drop,
                   nPass, arg_from_date, arg_offset, calls, yielded,
                   boundaryQuery, storeAtStart, quietRerun, prevYielded, srcTouched,
                   afterAbort>>

Next ==
    \/ \E r \in RecIds, t \in Times : SourceUpdate(r, t)
    \/ \E fc \in BOOLEAN : __init__(fc)
    \/ \E from_date \in DateArgs, offset \in OffsetArgs : FeedStart(from_date, offset)
    \/ FeedItem
    \/ ConnectorRaises
    \/ FeedFinish

Spec == Init /\ [][Next]_vars

\* ============================================================== claims
\* what the claims read off a pass

RECURSIVE Flatten(_)
\* the records of a sequence of bulk_upload_sync calls, in the order handed
Flatten(ups) ==
    IF ups = <<>> THEN <<>> ELSE Head(ups).items \o Flatten(Tail(ups))

\* the raw records of a sequence of wrapped records
DataOf(seq) == [i \in 1..Len(seq) |-> seq[i].data]

\* the records this pass received as feed batches them, in fetch order
Received == [i \in 1..Len(yielded) |-> Prepared(yielded[i])]

NotRejected(it) == ~drop_item(it)

\* everything the connector call of this pass produces: what was received and
\* what the generator still holds
Fetched == DataOf(yielded) \o items

\* the greatest stored update time among the documents of origin o in st
\* (0 if st holds none)
MaxStoredFor(st, o) ==
    LET ts == {st[k].metadata__updated_on.iso : k \in {q \in DOMAIN st : st[q].origin = o}}
    IN IF ts = {} THEN 0 ELSE CHOOSE t \in ts : \A u \in ts : u <= t

\* a pass has started on this feeder
InPass == pc # "idle"

\* a live pass with no override and no offset
PlainLive == InPass /\ ~fetch_cache /\ arg_from_date = None /\ arg_offset = None

\* C1: at the end of a complete pass the records handed to bulk upsert over
\* all flushes are the received records drop_item does not reject, each once
\* and in fetch order, and the dropped counter is the number of rejected ones.
C1_DropAccounting ==
    pc = "done" =>
        /\ Flatten(upserts) = SelectSeq(Received, NotRejected)
        /\ drop = Len(Received) - Len(SelectSeq(Received, NotRejected))

C1_Witness ==
    /\ pc = "done"
    /\ Len(yielded) >= 3
    /\ drop = 1
    /\ Len(upserts) >= 2

\* C2: every bulk-upsert call but the last carries exactly max_items_bulk
\* records, the last one between 1 and max_items_bulk, none is empty, and a
\* complete pass in which no record survives makes no call.
C2_BatchSizes ==
    /\ \A i \in 1..Len(upserts) :
          /\ Len(upserts[i].items) >= 1
          /\ Len(upserts[i].items) <= max_items_bulk
          /\ i < Len(upserts) => Len(upserts[i].items) = max_items_bulk
    /\ (pc = "done" /\ drop = Len(yielded)) => upserts = <<>>

C2_Witness ==
    /\ pc = "done"
    /\ max_items_bulk = 2
    /\ Len(upserts) = 2
    /\ Len(upserts[1].items) = 2
    /\ Len(upserts[2].items) = 1

C4_OverrideAlways ==
    (InPass /\ ~fetch_cache /\ hasFromDate /\ arg_from_date # None) =>
        /\ Len(calls) = 1
        /\ calls[1].method = "fetch"
        /\ calls[1].from_date # None
        /\ calls[1].from_date[1].t = arg_from_date[1].t

\* C4 amended: when no offset, or an offset of 0, is given, fetch is called
\* with from_date equal to the override with its tzinfo removed, whatever the
\* boundary; with a non-zero offset fetch gets the offset and no from_date.
C4_OverrideUnlessOffset ==
    (InPass /\ ~fetch_cache /\ hasFromDate /\ arg_from_date # None) =>
        IF arg_offset \in {None, Some(0)}
        THEN calls = <<FetchCall(Some([t |-> arg_from_date[1].t, tzinfo |-> "none"]), None)>>
        ELSE calls = <<FetchCall(None, arg_offset)>>

C4_Witness ==
    /\ InPass /\ ~fetch_cache /\ hasFromDate
    /\ arg_from_date # None /\ arg_offset = None
    /\ MaxStoredFor(storeAtStart, Origin) # 0
    /\ MaxStoredFor(storeAtStart, Origin) # arg_from_date[1].t
    /\ Len(yielded) >= 2

\* C5: with no document of the origin in the store and neither override nor
\* offset, a live pass calls fetch with no argument and fetches every record
\* of the source.
C5_FullFetchOnEmptyStore ==
    (PlainLive /\ MaxStoredFor(storeAtStart, Origin) = 0) =>
        /\ last_update = None
        /\ calls = <<FetchCall(None, None)>>
        /\ ~srcTouched =>
              {Fetched[i].id : i \in 1..Len(Fetched)}
                = {IdStr(r) : r \in {q \in RecIds : source[q] # 0}}

C5_Witness ==
    /\ PlainLive /\ hasFromDate
    /\ MaxStoredFor(storeAtStart, Origin) = 0
    /\ pc = "done"
    /\ Len(yielded) >= 2

\* C6: on a connector whose fetch takes no from_date no call of the pass
\* carries a date lower bound, be there a boundary in the store or an
\* override; without a non-zero offset the live call is fetch().
C6_NoFromDateParameter ==
    (InPass /\ ~hasFromDate) =>
        /\ \A i \in 1..Len(calls) : calls[i].from_date = None
        /\ (~fetch_cache /\ arg_offset \in {None, Some(0)}) =>
              calls = <<FetchCall(None, None)>>

C6_Witness ==
    /\ InPass /\ ~hasFromDate /\ ~fetch_cache
    /\ arg_from_date # None
    /\ MaxStoredFor(storeAtStart, Origin) # 0
    /\ Len(yielded) >= 1

\* C7: a pass makes exactly one connector call: fetch_from_cache when cache
\* replay is configured, fetch otherwise.
C7_OneConnectorCall ==
    InPass =>
        /\ Len(calls) = 1
        /\ calls[1].method = IF fetch_cache THEN "fetch_from_cache" ELSE "fetch"

C7_Witness ==
    /\ pc = "done"
    /\ fetch_cache
    /\ Len(yielded) >= 2

\* the documents of a bulk-upsert call are in the store
BatchStored(b) ==
    \A i \in 1..Len(b.items) :
        \E k \in DOMAIN store : store[k].uuid = b.items[i].uuid

\* C8: when the connector raises, the pass ends with that error; the batches
\* flushed before stay in the store, and until another pass starts no bulk
\* upsert and no connector call is made and the store does not change.
C8_ConnectorErrorAborts ==
    /\ [](error = "ConnectorError" =>
            /\ pc = "aborted"
            /\ Len(calls) = 1
            /\ \A i \in 1..Len(upserts) : BatchStored(upserts[i]))
    /\ [][(error' = "ConnectorError" /\ nPass' = nPass) =>
            /\ upserts' = upserts
            /\ store' = store
            /\ calls' = calls
            /\ pc' = "aborted"]_vars

C8_Witness ==
    /\ error = "ConnectorError"
    /\ Len(upserts) >= 1
    /\ items_pack # <<>>
    /\ items # <<>>

\* C9 as stated: for every uuid handed to bulk upsert the store holds exactly
\* one document, the record last handed for that uuid.
C9_OneDocumentPerUuid ==
    \A u \in DOMAIN submitted :
        LET docs == {k \in DOMAIN store : store[k].uuid = u}
        IN /\ Cardinality(docs) = 1
           /\ \A k \in docs : store[k] = submitted[u]

\* C10 as stated: the id field named in a bulk-upsert call is a field of every
\* record of the call, and its value is the uuid the wrapper gave the record.
C10_KeyedByUuid ==
    \A i \in 1..Len(upserts) :
        \A j \in 1..Len(upserts[i].items) :
            LET it == upserts[i].items[j]
            IN /\ upserts[i].field_id \in DOMAIN it
               /\ it[upserts[i].field_id] = uuid(<<Str(it.origin), Str(it.data.id)>>)


\* ======================================== the Bugzilla connector (BzSpec)
MaxBugs == 2       \* Bugzilla(max_bugs=n) is built with n in 0..MaxBugs
MaxPage == 2       \* the server lists 1..MaxPage rows per list query
MaxOps == 3        \* generators started in one behaviour

\* ------------------------------------------------- the Bugzilla server
\* the record a bug identifier names
RecOf(id) == CHOOSE r \in RecIds : IdStr(r) = id

\* buglist.cgi?chfieldfrom=from&order=changeddate: the bugs changed at or
\* after `from`, oldest change first, at most `limit` rows
ServerBuglist(from, src, limit) ==
    LET all == Ordered({r \in RecIds : src[r] # 0 /\ src[r] >= from}, src)
    IN SubSeq(all, 1, IF Len(all) < limit THEN Len(all) ELSE limit)

\* show_bug.cgi?id=...: one bug per identifier asked for, in that order
ServerBugs(bug_ids, src) ==
    [kind |-> "details",
     bug |-> [i \in 1..Len(bug_ids) |-> RawRecord(RecOf(bug_ids[i]), src)]]

\* show_activity.cgi?id=bug_id: the changes made to the bug
ServerActivity(bug_id, src) ==
    [kind |-> "activity", id |-> bug_id, events |-> src[RecOf(bug_id)] - 1]

\* a reply no parser accepts
Garbage == [kind |-> "garbage"]

\* ------------------------------------------------------------ the cache
\* Cache.store(*blocks): the blocks are appended, as a unit
CacheStore(cch, blocks) == cch \o blocks
\* Cache.retrieve(): the stored blocks, in the order stored
CacheRetrieve(cch) == cch

\* -------------------------------------------------------- the connector
\* self.max_bugs = max(1, max_bugs)
ClampMaxBugs(n) == IF 1 > n THEN 1 ELSE n

\* parse_bugs_details raises ParseError: no 'bug' in the parsed stream
BugsDetailsInvalid(raw_xml) == raw_xml.kind # "details" \/ raw_xml.bug = <<>>
\* parse_bugs_details: the bugs of the stream, in its order
parse_bugs_details(raw_xml) == raw_xml.bug

\* parse_bug_activity raises ParseError: no table of activity
BugActivityInvalid(raw_html) == raw_html.kind # "activity"
\* parse_bug_activity: the events of the table
parse_bug_activity(raw_html) == raw_html.events

\* bug['activity'] = [...]
WithActivity(bug, activity) ==
    [id |-> bug.id, updated |-> bug.updated, activity |-> activity]

\* __fetch_buglist: from_date = str_to_datetime(last_date) + 1 second
NextFromDateTwo(last_date) == last_date + 2
NextFromDateSame(last_date) == last_date
NextFromDate(last_date) == last_date + 1

\* chunk = buglist[i:i + self.max_bugs]
ChunkOneMore(bl, i, K) ==
    SubSeq(bl, i + 1, IF i + K + 1 < Len(bl) THEN i + K + 1 ELSE Len(bl))
Chunk(bl, i, K) == SubSeq(bl, i + 1, IF i + K < Len(bl) THEN i + K ELSE Len(bl))

\* bugs_ids = [b['bug_id'] for b in chunk]
BugIds(chunk) == [j \in 1..Len(chunk) |-> chunk[j].id]

\* Backend._purge_cache_queue
_purge_cache_queueKeeping(queue) == queue
_purge_cache_queue(queue) == <<>>

\* Backend._push_cache_queue
_push_cache_queue(given, queue, item) ==
    IF ~given THEN queue ELSE Append(queue, item)

\* Backend._flush_cache_queue: the cache and the queue it leaves
_flush_cache_queueKeeping(given, queue, cch) ==
    IF ~given THEN [cache |-> cch, queue |-> queue, stored |-> FALSE]
    ELSE [cache |-> CacheStore(cch, queue), queue |-> queue, stored |-> TRUE]
_flush_cache_queue(given, queue, cch) ==
    IF ~given THEN [cache |-> cch, queue |-> queue, stored |-> FALSE]
    ELSE [cache |-> CacheStore(cch, queue), queue |-> _purge_cache_queue(queue),
          stored |-> TRUE]

\* one entry of the trace: a request sent (with the list page it returned),
\* a call of _flush_cache_queue, or a call of Cache.store
Event(kind, arg, reply) ==
    [kind |-> kind, arg |-> arg, reply |-> reply, status |-> 200]
\* the request e answered with an error status
Failed(e) == [e EXCEPT !.status = 500]

\* __fetch_version finds the version in the server's metadata (the version
\* held from an earlier list query is not asked for again)
VersionDeterminedAlways == TRUE
VersionDetermined == version # None \/ version_ok

\* BugzillaClient.buglist: the version is asked for before the first list
VersionRequests(v) == IF v = None THEN <<Event("version", <<>>, <<>>)>> ELSE <<>>

\* the from_date arguments of fetch
FromArgs == {None} \cup {Some(DateTime(t, "none")) : t \in Times}

\* a feeder that made no pass
FeederUnused ==
    /\ fetch_cache = FALSE
    /\ project = None
    /\ hasFromDate = TRUE
    /\ newestFirst = FALSE
    /\ dropSet = {}
    /\ fixSetsId = FALSE
    /\ max_items_bulk = 1
    /\ passLimit = MaxPasses
    /\ pc = "idle"
    /\ last_update = None
    /\ items = <<>>
    /\ items_pack = <<>>
    /\ drop = 0
    /\ nPass = 0
    /\ arg_from_date = None
    /\ arg_offset = None
    /\ calls = <<>>
    /\ yielded = <<>>
    /\ upserts = <<>>
    /\ error = ""
    /\ submitted = EmptyStore
    /\ boundaryQuery = None
    /\ storeAtStart = EmptyStore
    /\ quietRerun = FALSE
    /\ afterAbort = FALSE
    /\ prevYielded = {}
    /\ srcTouched = FALSE

\* the feeder is not used in this specification, and the index is empty
FeedUnused == FeederUnused /\ store = EmptyStore

\* what no step of the connector touches, but for the count fetch keeps of
\* what it purged
fetchFrame == <<cfgVars, store, passVars, obsVars, source, itVars, uuVars,
                version_ok, cmd_pc, cache_backup, recovered, suspended>>
bzFrame == <<fetchFrame, purged>>

\* Bugzilla(url, max_bugs=n, cache=cache) over a server holding any bugs; the
\* cache directory is new
BzInit ==
    /\ FeedUnused
    /\ source \in [RecIds -> 0..MaxTime]
    /\ cache = <<>>
    /\ cache_given \in BOOLEAN
    /\ \E n \in 0..MaxBugs : max_bugs = ClampMaxBugs(n)
    /\ page_limit \in 1..MaxPage
    /\ version = None
    /\ cache_queue = <<>>
    /\ op = "none"
    /\ bpc = "idle"
    /\ list_from = 0
    /\ buglist = <<>>
    /\ chunk_i = 0
    /\ bugs = <<>>
    /\ cache_items = <<>>
    /\ out = <<>>
    /\ trace = <<>>
    /\ bz_error = ""
    /\ nOps = 0
    /\ intact = TRUE
    /\ fetched = None
    /\ cacheBase = 0
    /\ version_ok \in BOOLEAN
    /\ suspended = None
    /\ purged = 0
    /\ cmd_pc = "none"
    /\ cache_backup = <<>>
    /\ recovered = FALSE
    /\ IteratorUnused
    /\ UuidUnused

\* no generator of the connector is being consumed
Resting == bpc \in {"idle", "done", "error", "abandoned"}

\* the connector is not held by a BugzillaCommand whose run has started: run
\* starts one generator and consumes it to its end
NotRun == cmd_pc = "command" => bpc = "idle"

\* fetch(from_date), lines 80-86, when the consumer first asks for a record
fetch(from_date) ==
    /\ Resting
    /\ NotRun
    /\ nOps < MaxOps
    /\ op' = "fetch"
    /\ nOps' = nOps + 1
    /\ list_from' = IF from_date = None THEN DEFAULT_DATETIME.t ELSE from_date[1].t
    /\ cache_queue' = _purge_cache_queue(cache_queue)
    /\ purged' = Len(cache_queue)
    /\ buglist' = <<>>
    /\ chunk_i' = 0
    /\ bugs' = <<>>
    /\ cache_items' = <<>>
    /\ out' = <<>>
    /\ trace' = <<>>
    /\ bz_error' = ""
    /\ fetched' = None
    /\ cacheBase' = Len(cache)
    /\ bpc' = "paging"
    /\ UNCHANGED <<fetchFrame, cache, cache_given, max_bugs, page_limit, version,
                   intact>>

\* __fetch_buglist, one page: the list query, and the next lower bound when
\* the page is not empty (lines 159-179)
FetchListPage ==
    /\ bpc = "paging"
    /\ VersionDetermined
    /\ LET page == ServerBuglist(list_from, source, page_limit)
       IN /\ trace' = trace \o VersionRequests(version)
                            \o <<Event("list", list_from, page)>>
          /\ buglist' = buglist \o page
          /\ list_from' = IF page = <<>> THEN list_from
                          ELSE NextFromDate(page[Len(page)].updated)
          /\ bpc' = IF page = <<>> THEN "chunks" ELSE "paging"
    /\ version' = Some("4.0")
    /\ UNCHANGED <<bzFrame, cache, cache_given, max_bugs, page_limit,
                   cache_queue, op, chunk_i, bugs, cache_items, out, bz_error,
                   nOps, intact, fetched, cacheBase>>

\* BugzillaClient.buglist, lines 451-452: the version is asked for and the
\* reply does not show it; __fetch_version raises BackendError out of the
\* generator before the list query is built
VersionUnknown ==
    /\ bpc = "paging"
    /\ ~VersionDetermined
    /\ trace' = Append(trace, Event("version", <<>>, <<>>))
    /\ bz_error' = "BackendError"
    /\ bpc' = "error"
    /\ UNCHANGED <<bzFrame, cache, cache_given, max_bugs, page_limit, version,
                   cache_queue, op, list_from, buglist, chunk_i, bugs,
                   cache_items, out, nOps, intact, fetched, cacheBase>>

\* one turn of the chunk loop up to the details of the chunk (lines 92-97)
FetchChunkDetails ==
    /\ bpc = "chunks"
    /\ chunk_i < Len(buglist)
    /\ LET chunk == Chunk(buglist, chunk_i, max_bugs)
           bugs_ids == BugIds(chunk)
           raw_bugs == ServerBugs(bugs_ids, source)
       IN /\ trace' = Append(trace, Event("details", bugs_ids, <<>>))
          /\ cache_queue' = _push_cache_queue(cache_given, cache_queue, raw_bugs)
          /\ bugs' = parse_bugs_details(raw_bugs)
    /\ bpc' = "bugs"
    /\ UNCHANGED <<bzFrame, cache, cache_given, max_bugs, page_limit, version,
                   op, list_from, buglist, chunk_i, cache_items, out, bz_error,
                   nOps, intact, fetched, cacheBase>>

\* the next bug of the chunk: its activity is fetched and the bug is yielded
\* (lines 99-103)
FetchBugActivity ==
    /\ bpc \in {"bugs", "yield"}
    /\ bugs # <<>>
    /\ LET bug == Head(bugs)
           raw_activity == ServerActivity(bug.id, source)
       IN /\ trace' = Append(trace, Event("activity", bug.id, <<>>))
          /\ cache_queue' = _push_cache_queue(cache_given, cache_queue, raw_activity)
          /\ out' = Append(out, metadata(WithActivity(bug,
                                  parse_bug_activity(raw_activity)), nOps))
    /\ bugs' = Tail(bugs)
    /\ bpc' = "yield"
    /\ UNCHANGED <<bzFrame, cache, cache_given, max_bugs, page_limit, version,
                   op, list_from, buglist, chunk_i, cache_items, bz_error,
                   nOps, intact, fetched, cacheBase>>

\* the chunk is consumed: the consumer asks for one more record and the
\* queue is flushed (line 105)
FetchChunkFlushSkipping ==
    /\ bpc = "yield"
    /\ bugs = <<>>
    /\ chunk_i' = chunk_i + max_bugs
    /\ bpc' = "chunks"
    /\ UNCHANGED <<bzFrame, cache, cache_queue, trace, cache_given, max_bugs,
                   page_limit, version, op, list_from, buglist, bugs,
                   cache_items, out, bz_error, nOps, intact, fetched, cacheBase>>
FetchChunkFlush ==
    /\ bpc = "yield"
    /\ bugs = <<>>
    /\ LET f == _flush_cache_queue(cache_given, cache_queue, cache)
       IN /\ cache' = f.cache
          /\ cache_queue' = f.queue
          /\ trace' = trace \o <<Event("flush", <<>>, <<>>)>>
                            \o (IF f.stored THEN <<Event("store", <<>>, <<>>)>>
                                ELSE <<>>)
    /\ chunk_i' = chunk_i + max_bugs
    /\ bpc' = "chunks"
    /\ UNCHANGED <<bzFrame, cache_given, max_bugs, page_limit, version, op,
                   list_from, buglist, bugs, cache_items, out, bz_error, nOps,
                   intact, fetched, cacheBase>>

\* the chunk loop is over: the generator ends (lines 92, 107)
FetchEndFlushing ==
    /\ bpc = "chunks"
    /\ chunk_i >= Len(buglist)
    /\ bpc' = "done"
    /\ fetched' = Some(out)
    /\ LET f == _flush_cache_queue(cache_given, cache_queue, cache)
       IN /\ cache' = f.cache
          /\ cache_queue' = f.queue
          /\ trace' = trace \o <<Event("flush", <<>>, <<>>)>>
                            \o (IF f.stored THEN <<Event("store", <<>>, <<>>)>>
                                ELSE <<>>)
    /\ UNCHANGED <<bzFrame, cache_given, max_bugs, page_limit, version,
                   op, list_from, buglist, chunk_i, bugs,
                   cache_items, out, bz_error, nOps, intact, cacheBase>>
FetchEnd ==
    /\ bpc = "chunks"
    /\ chunk_i >= Len(buglist)
    /\ bpc' = "done"
    /\ fetched' = Some(out)
    /\ UNCHANGED <<bzFrame, cache, cache_given, max_bugs, page_limit, version,
                   cache_queue, op, list_from, buglist, chunk_i, bugs,
                   cache_items, out, trace, bz_error, nOps, intact, cacheBase>>

\* the consumer stops asking: the generator stays at its yield (line 103)
FetchAbandonFlushing ==
    /\ bpc = "yield"
    /\ cmd_pc # "command"
    /\ bpc' = "abandoned"
    /\ LET f == _flush_cache_queue(cache_given, cache_queue, cache)
       IN /\ cache' = f.cache
          /\ cache_queue' = f.queue
    /\ UNCHANGED <<bzFrame, cache_given, max_bugs, page_limit, version,
                   op, list_from, buglist, chunk_i, bugs,
                   cache_items, out, trace, bz_error, nOps, intact, fetched,
                   cacheBase>>
FetchAbandon ==
    /\ bpc = "yield"
    /\ cmd_pc # "command"
    /\ bpc' = "abandoned"
    /\ UNCHANGED <<bzFrame, cache, cache_given, max_bugs, page_limit, version,
                   cache_queue, op, list_from, buglist, chunk_i, bugs,
                   cache_items, out, trace, bz_error, nOps, intact, fetched,
                   cacheBase>>

\* the request the live fetch is about to send
PendingRequest ==
    IF bpc = "paging" THEN Event("list", list_from, <<>>)
    ELSE IF bpc = "chunks"
         THEN Event("details", BugIds(Chunk(buglist, chunk_i, max_bugs)), <<>>)
    ELSE Event("activity", Head(bugs).id, <<>>)

\* the live fetch is about to send a request
AtRequest ==
    \/ bpc = "paging"
    \/ bpc = "chunks" /\ chunk_i < Len(buglist)
    \/ bpc \in {"bugs", "yield"} /\ bugs # <<>>

\* BugzillaClient.call: the server answers with an error status and
\* raise_for_status raises out of the generator
RequestRaises ==
    /\ AtRequest
    /\ trace' = IF bpc = "paging" /\ ~VersionDetermined
                THEN Append(trace, Failed(Event("version", <<>>, <<>>)))
                ELSE trace \o (IF bpc = "paging" THEN VersionRequests(version)
                               ELSE <<>>)
                           \o <<Failed(PendingRequest)>>
    /\ version' = IF bpc = "paging" /\ VersionDetermined THEN Some("4.0") ELSE version
    /\ bz_error' = "HTTPError"
    /\ bpc' = "error"
    /\ UNCHANGED <<bzFrame, cache, cache_given, max_bugs, page_limit,
                   cache_queue, op, list_from, buglist, chunk_i, bugs,
                   cache_items, out, nOps, intact, fetched, cacheBase>>

\* the reply to a details or activity request is queued for the cache and
\* then fails to parse (lines 183-193): ParseError leaves the generator
ReplyInvalid ==
    /\ AtRequest
    /\ bpc # "paging"
    /\ trace' = Append(trace, PendingRequest)
    /\ cache_queue' = _push_cache_queue(cache_given, cache_queue, Garbage)
    /\ bz_error' = "ParseError"
    /\ bpc' = "error"
    /\ UNCHANGED <<bzFrame, cache, cache_given, max_bugs, page_limit, version,
                   op, list_from, buglist, chunk_i, bugs, cache_items, out,
                   nOps, intact, fetched, cacheBase>>

\* fetch_from_cache(), lines 125-130, when the consumer first asks for a
\* record
fetch_from_cacheUnchecked ==
    /\ Resting
    /\ NotRun
    /\ nOps < MaxOps
    /\ op' = "fetch_from_cache"
    /\ nOps' = nOps + 1
    /\ out' = <<>>
    /\ bugs' = <<>>
    /\ bz_error' = ""
    /\ bpc' = "replay"
    /\ cache_items' = CacheRetrieve(cache)
    /\ UNCHANGED <<bzFrame, cache, cache_given, max_bugs, page_limit, version,
                   cache_queue, list_from, buglist, chunk_i, trace, intact,
                   fetched, cacheBase>>
fetch_from_cache ==
    /\ Resting
    /\ NotRun
    /\ nOps < MaxOps
    /\ op' = "fetch_from_cache"
    /\ nOps' = nOps + 1
    /\ out' = <<>>
    /\ bugs' = <<>>
    /\ bz_error' = IF ~cache_given THEN "CacheError" ELSE ""
    /\ bpc' = IF ~cache_given THEN "error" ELSE "replay"
    /\ cache_items' = IF ~cache_given THEN <<>> ELSE CacheRetrieve(cache)
    /\ UNCHANGED <<bzFrame, cache, cache_given, max_bugs, page_limit, version,
                   cache_queue, list_from, buglist, chunk_i, trace, intact,
                   fetched, cacheBase>>

\* the top of the replay loop (lines 134-140): the next block is read as a
\* details block; an exhausted cache ends the replay
NextDetailsStrict(blocks) ==
    IF blocks = <<>>
    THEN [pc |-> "error", error |-> "CacheError", bugs |-> <<>>, items |-> blocks]
    ELSE IF BugsDetailsInvalid(Head(blocks))
    THEN [pc |-> "error", error |-> "ParseError", bugs |-> <<>>,
          items |-> Tail(blocks)]
    ELSE [pc |-> "rbugs", error |-> "", bugs |-> parse_bugs_details(Head(blocks)),
          items |-> Tail(blocks)]
NextDetails(blocks) ==
    IF blocks = <<>>
    THEN [pc |-> "done", error |-> "", bugs |-> <<>>, items |-> blocks]
    ELSE IF BugsDetailsInvalid(Head(blocks))
    THEN [pc |-> "error", error |-> "ParseError", bugs |-> <<>>,
          items |-> Tail(blocks)]
    ELSE [pc |-> "rbugs", error |-> "", bugs |-> parse_bugs_details(Head(blocks)),
          items |-> Tail(blocks)]

\* one turn of the loop over the parsed bugs (lines 142-154): the next block
\* is read as the activity of the bug, which is yielded; an exhausted cache
\* is a CacheError
NextActivityLenient(bgs, blocks) ==
    IF blocks = <<>>
    THEN [pc |-> IF Tail(bgs) = <<>> THEN "replay" ELSE "rbugs", error |-> "",
          yielded |-> <<WithActivity(Head(bgs), 0)>>,
          bugs |-> Tail(bgs), items |-> blocks]
    ELSE IF BugActivityInvalid(Head(blocks))
    THEN [pc |-> "error", error |-> "ParseError", yielded |-> <<>>,
          bugs |-> bgs, items |-> Tail(blocks)]
    ELSE [pc |-> IF Tail(bgs) = <<>> THEN "replay" ELSE "rbugs", error |-> "",
          yielded |-> <<WithActivity(Head(bgs), parse_bug_activity(Head(blocks)))>>,
          bugs |-> Tail(bgs), items |-> Tail(blocks)]
NextActivity(bgs, blocks) ==
    IF blocks = <<>>
    THEN [pc |-> "error", error |-> "CacheError", yielded |-> <<>>,
          bugs |-> bgs, items |-> blocks]
    ELSE IF BugActivityInvalid(Head(blocks))
    THEN [pc |-> "error", error |-> "ParseError", yielded |-> <<>>,
          bugs |-> bgs, items |-> Tail(blocks)]
    ELSE [pc |-> IF Tail(bgs) = <<>> THEN "replay" ELSE "rbugs", error |-> "",
          yielded |-> <<WithActivity(Head(bgs), parse_bug_activity(Head(blocks)))>>,
          bugs |-> Tail(bgs), items |-> Tail(blocks)]

\* requests a replay step sends to the server: none
ReplayRequestsRefetching(blocks) ==
    IF blocks = <<>> THEN <<>> ELSE <<Event("details", <<>>, <<>>)>>
ReplayRequests(blocks) == <<>>

\* the replay reads the next details block (lines 134-140)
ReplayDetails ==
    /\ bpc = "replay"
    /\ LET r == NextDetails(cache_items)
       IN /\ bpc' = r.pc
          /\ bz_error' = r.error
          /\ bugs' = r.bugs
          /\ cache_items' = r.items
    /\ trace' = trace \o ReplayRequests(cache_items)
    /\ UNCHANGED <<bzFrame, cache, cache_given, max_bugs, page_limit, version,
                   cache_queue, op, list_from, buglist, chunk_i, out, nOps,
                   intact, fetched, cacheBase>>

\* the replay reads the activity block of the next bug and yields the bug
\* (lines 142-154)
ReplayActivity ==
    /\ bpc = "rbugs"
    /\ LET r == NextActivity(bugs, cache_items)
       IN /\ bpc' = r.pc
          /\ bz_error' = r.error
          /\ bugs' = r.bugs
          /\ cache_items' = r.items
          /\ out' = out \o [j \in 1..Len(r.yielded) |-> metadata(r.yielded[j], nOps)]
    /\ UNCHANGED <<bzFrame, cache, cache_given, max_bugs, page_limit, version,
                   cache_queue, op, list_from, buglist, chunk_i, trace, nOps,
                   intact, fetched, cacheBase>>

\* the cache loses its last block outside the connector (a write cycle that
\* ended abnormally)
CacheTruncate ==
    /\ Resting
    /\ nOps < MaxOps
    /\ cache # <<>>
    /\ cache' = SubSeq(cache, 1, Len(cache) - 1)
    /\ intact' = FALSE
    /\ UNCHANGED <<bzFrame, cache_given, max_bugs, page_limit, version,
                   cache_queue, op, bpc, list_from, buglist, chunk_i, bugs,
                   cache_items, out, trace, bz_error, nOps, fetched, cacheBase>>

BzNext ==
    \/ \E from_date \in FromArgs : fetch(from_date)
    \/ FetchListPage
    \/ VersionUnknown
    \/ FetchChunkDetails
    \/ FetchBugActivity
    \/ FetchChunkFlush
    \/ FetchEnd
    \/ FetchAbandon
    \/ RequestRaises
    \/ ReplyInvalid
    \/ fetch_from_cache
    \/ ReplayDetails
    \/ ReplayActivity
    \/ CacheTruncate

BzSpec == BzInit /\ [][BzNext]_vars

\* ======================================= claims about the connector
\* the kinds of trace entries that are requests to the server
RequestKinds == {"version", "list", "details", "activity"}

\* the entries of tr of the given kinds, in order
RECURSIVE OfKinds(_, _)
OfKinds(tr, kinds) ==
    IF tr = <<>> THEN <<>>
    ELSE (IF Head(tr).kind \in kinds THEN <<Head(tr)>> ELSE <<>>)
         \o OfKinds(Tail(tr), kinds)

\* the number of requests in tr
NRequests(tr) == Len(OfKinds(tr, RequestKinds))

\* two record sequences agree in length and, position by position, on uuid
\* and on the source update time
SameRecords(a, b) ==
    /\ Len(a) = Len(b)
    /\ \A j \in 1..Len(a) :
          a[j].uuid = b[j].uuid /\ a[j].updated_on = b[j].updated_on

\* a replay has ended (normally or not) after a fully consumed live fetch
\* on a connector with a cache no block of which was lost
ReplayedAfterFetch ==
    /\ op = "fetch_from_cache"
    /\ bpc \in {"done", "error"}
    /\ cache_given
    /\ intact
    /\ fetched # None

\* C11 (as stated): a fully consumed fetch on a connector with a cache,
\* followed by fetch_from_cache, gives two record sequences of the same
\* length that agree position by position on uuid and sourceUpdatedAt
C11_RoundTripAnyCache ==
    ReplayedAfterFetch => SameRecords(fetched[1], out)

\* C11 (amended): the same, when the cache held no block when the fetch
\* began; the replay yields the records of every fetch stored before too
C11_RoundTripFromEmptyCache ==
    (ReplayedAfterFetch /\ cacheBase = 0) =>
        /\ bpc = "done"
        /\ SameRecords(fetched[1], out)

C11_Witness ==
    /\ ReplayedAfterFetch
    /\ cacheBase = 0
    /\ bpc = "done"
    /\ Len(out) = MaxRec
    /\ max_bugs = 2

\* C12: a replay sends no request: no step of fetch_from_cache changes the
\* number of requests sent to the server, whatever the cache holds
C12_ReplaySendsNothing ==
    [][op' = "fetch_from_cache" => NRequests(trace') = NRequests(trace)]_vars

C12_Witness ==
    /\ op = "fetch_from_cache"
    /\ bpc = "done"
    /\ Len(out) >= 2
    /\ NRequests(trace) > 0

\* cch is a sequence of whole chunk groups: a details block, then one
\* activity block per bug parsed from it, in the order of the bugs
RECURSIVE WholeGroups(_)
WholeGroups(cch) ==
    IF cch = <<>> THEN TRUE
    ELSE /\ ~BugsDetailsInvalid(Head(cch))
         /\ LET bgs == parse_bugs_details(Head(cch))
                n == Len(bgs)
            IN /\ Len(cch) >= n + 1
               /\ \A j \in 1..n : /\ ~BugActivityInvalid(cch[j + 1])
                                  /\ cch[j + 1].id = bgs[j].id
               /\ WholeGroups(SubSeq(cch, n + 2, Len(cch)))

\* C13: whatever prefix of a live fetch has run (consumed to the end,
\* abandoned at a record, or aborted by a request or parse failure), the
\* cache holds whole chunk groups only, and a replay of it raises no
\* CacheError
C13_CacheHoldsWholeGroups ==
    (cache_given /\ intact) =>
        /\ WholeGroups(cache)
        /\ (op = "fetch_from_cache" => bz_error # "CacheError")

C13_Witness ==
    /\ op = "fetch"
    /\ bpc = "abandoned"
    /\ cache_given
    /\ intact
    /\ cache # <<>>
    /\ Len(cache_queue) >= 2
    /\ bugs # <<>>

\* C14: when the replay has read a details block and the cache is exhausted
\* before every bug parsed from it got its activity block, the replay raises
\* CacheError: it neither yields the bug nor ends normally
C14_ExhaustedCacheIsFatal ==
    [][(bpc = "rbugs" /\ cache_items = <<>>) =>
          (bpc' = "error" /\ bz_error' = "CacheError" /\ out' = out)]_vars

C14_Witness ==
    /\ op = "fetch_from_cache"
    /\ bz_error = "CacheError"
    /\ cache_given
    /\ Len(bugs) = 1
    /\ Len(out) = 1

\* C15: fetch_from_cache on a connector built without a cache raises
\* CacheError and yields no record
C15_NoCacheIsCacheError ==
    (op = "fetch_from_cache" /\ ~cache_given) =>
        /\ bpc = "error"
        /\ bz_error = "CacheError"
        /\ out = <<>>

C15_Witness ==
    /\ op = "fetch_from_cache"
    /\ ~cache_given
    /\ bz_error = "CacheError"
    /\ fetched # None
    /\ fetched[1] # <<>>

\* C16: fetch_from_cache on a configured cache holding no block yields no
\* record and ends normally
C16_EmptyCacheEndsNormally ==
    [][(bpc = "replay" /\ cache_given /\ cache = <<>>) =>
          (bpc' = "done" /\ bz_error' = "" /\ out' = <<>>)]_vars

C16_Witness ==
    /\ op = "fetch_from_cache"
    /\ cache_given
    /\ cache = <<>>
    /\ bpc = "done"
    /\ out = <<>>
    /\ bz_error = ""

\* ceil(n / k)
Ceil(n, k) == (n + k - 1) \div k

\* the arguments of the entries of tr, in order
Args(tr) == [j \in 1..Len(tr) |-> tr[j].arg]

RECURSIVE Concat(_)
\* the concatenation of a sequence of sequences
Concat(ss) == IF ss = <<>> THEN <<>> ELSE Head(ss) \o Concat(Tail(ss))

\* a live fetch was consumed to its end
FetchDone == op = "fetch" /\ bpc = "done"

\* C17: for N candidate ids and chunk size K (never below 1), a fully
\* consumed fetch sends ceil(N/K) details requests, each for at most K ids
\* taken in candidate-list order, and yields N wrapped records in that order
C17_ChunkedReassembly ==
    /\ max_bugs >= 1
    /\ FetchDone =>
        LET details == OfKinds(trace, {"details"})
        IN /\ Len(details) = Ceil(Len(buglist), max_bugs)
           /\ \A j \in 1..Len(details) :
                 Len(details[j].arg) \in 1..max_bugs
           /\ Concat(Args(details)) = BugIds(buglist)
           /\ Len(out) = Len(buglist)
           /\ \A j \in 1..Len(out) :
                 /\ out[j].data.id = buglist[j].id
                 /\ out[j].uuid = uuid(<<Str(Origin), Str(buglist[j].id)>>)
                 /\ out[j].updated_on = out[j].data.updated

C17_Witness ==
    /\ FetchDone
    /\ Len(buglist) = 3
    /\ max_bugs = 2
    /\ Len(OfKinds(trace, {"details"})) = 2

\* the kinds of the entries of tr, in order
Kinds(tr) == [j \in 1..Len(tr) |-> tr[j].kind]

\* a is a prefix of b
IsPrefix(a, b) == Len(a) <= Len(b) /\ SubSeq(b, 1, Len(a)) = a

RECURSIVE ChunkKinds(_, _, _)
\* what the chunks of n candidates put on the trace, chunk after chunk: the
\* details request, one activity request per bug, the flush (and the store
\* it makes when there is a cache)
ChunkKinds(n, K, given) ==
    IF n = 0 THEN <<>>
    ELSE LET m == IF n < K THEN n ELSE K
         IN <<"details">> \o [j \in 1..m |-> "activity"] \o <<"flush">>
            \o (IF given THEN <<"store">> ELSE <<>>)
            \o ChunkKinds(n - m, K, given)

\* the entries of the trace that follow the list paging
AfterPaging == OfKinds(trace, {"details", "activity", "flush", "store"})

\* C18: in a live fetch every list query precedes the first details query;
\* each chunk is its details query, then one activity query per bug of the
\* chunk in order, then one flush, before the next chunk's details query;
\* a fetch consumed to its end has flushed once per chunk
C18_RequestOrder ==
    op = "fetch" =>
        /\ \A i, j \in 1..Len(trace) :
              (i < j /\ trace[j].kind \in {"version", "list"})
                  => trace[i].kind \in {"version", "list"}
        /\ IsPrefix(Kinds(AfterPaging),
                    ChunkKinds(Len(buglist), max_bugs, cache_given))
        /\ IsPrefix(Args(OfKinds(trace, {"activity"})), BugIds(buglist))
        /\ bpc = "done" =>
              /\ Kinds(AfterPaging) = ChunkKinds(Len(buglist), max_bugs, cache_given)
              /\ Len(OfKinds(trace, {"flush"})) = Ceil(Len(buglist), max_bugs)

C18_Witness ==
    /\ FetchDone
    /\ cache_given
    /\ Len(buglist) = 3
    /\ max_bugs = 2
    /\ Len(OfKinds(trace, {"list"})) >= 3
    /\ Len(OfKinds(trace, {"flush"})) = 2

\* the list queries of the trace, in order
ListQueries == OfKinds(trace, {"list"})

\* the list query q returned a page with rows
NonEmptyPage(q) == q.status = 200 /\ q.reply # <<>>

\* C19: after every non-empty list page the next list query asks from the
\* change time of the last row of that page plus one second; paging stops at
\* the first empty page, so the list queries are the non-empty pages plus one
C19_ListPaging ==
    op = "fetch" =>
        LET q == ListQueries
        IN /\ \A k \in 1..(Len(q) - 1) :
                 /\ NonEmptyPage(q[k])
                 /\ q[k + 1].arg = q[k].reply[Len(q[k].reply)].updated + 1
           /\ bpc \in {"chunks", "bugs", "yield", "done", "abandoned"} =>
                 /\ Len(q) >= 1
                 /\ q[Len(q)].status = 200
                 /\ q[Len(q)].reply = <<>>
                 /\ Len(q) = Cardinality({k \in 1..Len(q) : NonEmptyPage(q[k])}) + 1
                 /\ buglist = Concat([k \in 1..Len(q) |-> q[k].reply])

C19_Witness ==
    /\ FetchDone
    /\ Len(ListQueries) = 3
    /\ Len(ListQueries[1].reply) = 2
    /\ ListQueries[2].arg = 2

\* C20: when the first list page is empty, fetch yields no record and sends
\* one list query, no details query, no activity query, and stores nothing
\* in the cache
C20_EmptyFirstPage ==
    (op = "fetch" /\ ListQueries # <<>> /\ ListQueries[1].status = 200
       /\ ListQueries[1].reply = <<>>) =>
        /\ bpc \in {"chunks", "done"}
        /\ bz_error = ""
        /\ out = <<>>
        /\ Len(ListQueries) = 1
        /\ OfKinds(trace, {"details", "activity", "store"}) = <<>>
        /\ cache_queue = <<>>

C20_Witness ==
    /\ FetchDone
    /\ cache_given
    /\ ListQueries[1].reply = <<>>
    /\ ListQueries[1].arg = MaxTime
    /\ \E r \in RecIds : source[r] # 0
    /\ out = <<>>


\* ======================================= the read-back iterator (IterSpec)
MaxDocs == 12      \* documents of the origin the index can hold
MaxIters == 2      \* calls of __iter__ in one behaviour

\* self.elastic_page = 10
ElasticPage == 10

\* ---------------------------------------------------- the index store
\* a stored document: its key, origin and update date
Doc(k, o, t) ==
    [key |-> k, origin |-> o,
     metadata__updated_on |-> isoformat(fromtimestamp(t))]

\* an index with nOld documents of the origin updated at time 1, nNew
\* updated at time 2 and nForeign documents of another origin
IndexOf(nOld, nNew, nForeign) ==
    [k \in 1..(nOld + nNew + nForeign) |->
        IF k <= nOld THEN Doc(k, Origin, 1)
        ELSE IF k <= nOld + nNew THEN Doc(k, Origin, 2)
        ELSE Doc(k, OtherOrigin, 2)]

\* the keys of the documents the query of _get_elastic_items selects: those
\* of the origin, updated at or after the from date when one is set
Matching(st, fd) ==
    {k \in DOMAIN st :
        /\ st[k].origin = Origin
        /\ fd # None => st[k].metadata__updated_on.iso >= isoformat(fd[1]).iso}

RECURSIVE SortedDocs(_, _)
\* the documents of keys S, ascending by update date (then by key)
SortedDocs(S, st) ==
    IF S = {} THEN <<>>
    ELSE LET m == CHOOSE k \in S : \A q \in S :
                     \/ st[k].metadata__updated_on.iso < st[q].metadata__updated_on.iso
                     \/ /\ st[k].metadata__updated_on.iso = st[q].metadata__updated_on.iso
                        /\ k <= q
         IN <<st[m]>> \o SortedDocs(S \ {m}, st)

\* one page cut from what a cursor has left, and the reply carrying it
PageReply(id, left, size, atEnd) ==
    LET n == IF Len(left) < size THEN Len(left) ELSE size
        rest == SubSeq(left, n + 1, Len(left))
        token == \/ atEnd = "always"
                 \/ atEnd = "more" /\ rest # <<>>
                 \/ atEnd = "hits" /\ n > 0
    IN [hits |-> SubSeq(left, 1, n),
        scroll_id |-> IF token THEN Some(id) ELSE None,
        cursor |-> [id |-> id, rest |-> rest]]

\* _search?scroll=3m&size=n with the query: a new cursor and its first page
ServerSearch(st, fd, size, cur, atEnd) ==
    PageReply(cur.id + 1, SortedDocs(Matching(st, fd), st), size, atEnd)

\* _search/scroll with a token: the next page of that cursor
ServerScroll(token, size, cur, atEnd) ==
    PageReply(cur.id, cur.rest, size, atEnd)

\* ------------------------------------------------------- the iterator
\* _get_elastic_items (lines 187-265) when the reply parses: the documents of
\* the page, the token kept and the cursor the store is left with
_get_elastic_items(scroll_id, size, fd, st, cur, atEnd) ==
    LET r == IF scroll_id # None
             THEN ServerScroll(scroll_id[1], size, cur, atEnd)
             ELSE ServerSearch(st, fd, size, cur, atEnd)
    IN [items |-> r.hits, scroll_id |-> r.scroll_id, cursor |-> r.cursor,
        request |-> IF scroll_id # None THEN "scroll" ELSE "search"]

\* _get_elastic_items when r.json() raises (lines 247-257): the except clause
\* logs and leaves rjson unbound, and the test of rjson that follows raises
MalformedReplyOutcome == [raised |-> TRUE, error |-> "UnboundLocalError"]

\* __iter__: self.elastic_scroll_id = None
ResetScrollIdKeeping(scroll_id) == scroll_id
ResetScrollId(scroll_id) == None

\* __next__ (lines 277-287) when every reply parses: what is yielded (one
\* document or none), whether StopIteration is raised, the buffer and token
\* left, and the requests sent
NextOutcomeNoAdvance(buf, scroll_id, size, fd, st, cur, atEnd) ==
    IF Len(buf) > 0
    THEN [yielded |-> <<buf[Len(buf)]>>, stop |-> FALSE,
          items |-> SubSeq(buf, 1, Len(buf) - 1), scroll_id |-> scroll_id,
          cursor |-> cur, requests |-> <<>>]
    ELSE [yielded |-> <<>>, stop |-> TRUE, items |-> buf,
          scroll_id |-> scroll_id, cursor |-> cur, requests |-> <<>>]
NextOutcomeStopOnNoToken(buf, scroll_id, size, fd, st, cur, atEnd) ==
    IF Len(buf) > 0
    THEN [yielded |-> <<buf[Len(buf)]>>, stop |-> FALSE,
          items |-> SubSeq(buf, 1, Len(buf) - 1), scroll_id |-> scroll_id,
          cursor |-> cur, requests |-> <<>>]
    ELSE IF scroll_id = None
    THEN [yielded |-> <<>>, stop |-> TRUE, items |-> buf,
          scroll_id |-> scroll_id, cursor |-> cur, requests |-> <<>>]
    ELSE LET g == _get_elastic_items(scroll_id, size, fd, st, cur, atEnd)
         IN IF Len(g.items) > 0 /\ g.scroll_id # None
            THEN [yielded |-> <<g.items[Len(g.items)]>>, stop |-> FALSE,
                  items |-> SubSeq(g.items, 1, Len(g.items) - 1),
                  scroll_id |-> g.scroll_id, cursor |-> g.cursor,
                  requests |-> <<g.request>>]
            ELSE [yielded |-> <<>>, stop |-> TRUE, items |-> g.items,
                  scroll_id |-> g.scroll_id, cursor |-> g.cursor,
                  requests |-> <<g.request>>]
NextOutcome(buf, scroll_id, size, fd, st, cur, atEnd) ==
    IF Len(buf) > 0
    THEN [yielded |-> <<buf[Len(buf)]>>, stop |-> FALSE,
          items |-> SubSeq(buf, 1, Len(buf) - 1), scroll_id |-> scroll_id,
          cursor |-> cur, requests |-> <<>>]
    ELSE IF scroll_id = None
    THEN [yielded |-> <<>>, stop |-> TRUE, items |-> buf,
          scroll_id |-> scroll_id, cursor |-> cur, requests |-> <<>>]
    ELSE LET g == _get_elastic_items(scroll_id, size, fd, st, cur, atEnd)
         IN IF Len(g.items) > 0
            THEN [yielded |-> <<g.items[Len(g.items)]>>, stop |-> FALSE,
                  items |-> SubSeq(g.items, 1, Len(g.items) - 1),
                  scroll_id |-> g.scroll_id, cursor |-> g.cursor,
                  requests |-> <<g.request>>]
            ELSE [yielded |-> <<>>, stop |-> TRUE, items |-> g.items,
                  scroll_id |-> g.scroll_id, cursor |-> g.cursor,
                  requests |-> <<g.request>>]

\* what no step of the iterator touches
itFrame == <<cfgVars, source, cache, store, passVars, obsVars, bzVars,
             self_from_date, tokenPolicy, uuVars>>

\* ElasticOcean(backend, from_date=d) reading an index that holds documents
\* of its origin and possibly of another
IterInit ==
    /\ FeederUnused
    /\ ConnectorUnused
    /\ source = [r \in RecIds |-> 0]
    /\ cache = <<>>
    /\ \E nOld \in 0..MaxDocs, nNew \in 0..MaxDocs, nForeign \in 0..1 :
          /\ nOld + nNew <= MaxDocs
          /\ store = IndexOf(nOld, nNew, nForeign)
    /\ self_from_date \in {None, Some(DateTime(2, "none"))}
    /\ tokenPolicy \in {"always", "more", "hits"}
    /\ elastic_scroll_id = None
    /\ elastic_page = 0
    /\ iter_items = <<>>
    /\ es_cursor = [id |-> 0, rest |-> <<>>]
    /\ it_pc = "new"
    /\ it_out = <<>>
    /\ it_requests = <<>>
    /\ it_error = ""
    /\ nIter = 0
    /\ UuidUnused

\* __iter__ (lines 267-275), the reply parsing
__iter__ ==
    /\ nIter < MaxIters
    /\ LET g == _get_elastic_items(ResetScrollId(elastic_scroll_id), ElasticPage,
                                   self_from_date, store, es_cursor, tokenPolicy)
       IN /\ elastic_scroll_id' = g.scroll_id
          /\ iter_items' = g.items
          /\ es_cursor' = g.cursor
          /\ it_requests' = <<g.request>>
    /\ elastic_page' = ElasticPage
    /\ it_pc' = "iterating"
    /\ it_out' = <<>>
    /\ it_error' = ""
    /\ nIter' = nIter + 1
    /\ UNCHANGED itFrame

\* __iter__ when the reply does not parse: the error leaves __iter__ before
\* the buffer is assigned
IterMalformedReply ==
    /\ nIter < MaxIters
    /\ elastic_scroll_id' = ResetScrollId(elastic_scroll_id)
    /\ elastic_page' = ElasticPage
    /\ it_requests' = <<"search">>
    /\ it_pc' = IF MalformedReplyOutcome.raised THEN "raised" ELSE "iterating"
    /\ it_error' = MalformedReplyOutcome.error
    /\ it_out' = <<>>
    /\ nIter' = nIter + 1
    /\ UNCHANGED <<itFrame, iter_items, es_cursor>>

\* __next__ (lines 277-287), every reply parsing
__next__ ==
    /\ it_pc = "iterating"
    /\ LET r == NextOutcome(iter_items, elastic_scroll_id, elastic_page,
                            self_from_date, store, es_cursor, tokenPolicy)
       IN /\ it_out' = it_out \o r.yielded
          /\ it_pc' = IF r.stop THEN "stopped" ELSE "iterating"
          /\ iter_items' = r.items
          /\ elastic_scroll_id' = r.scroll_id
          /\ es_cursor' = r.cursor
          /\ it_requests' = it_requests \o r.requests
    /\ UNCHANGED <<itFrame, elastic_page, it_error, nIter>>

\* __next__ advancing the cursor when the reply does not parse
NextMalformedReply ==
    /\ it_pc = "iterating"
    /\ iter_items = <<>>
    /\ elastic_scroll_id # None
    /\ it_requests' = Append(it_requests, "scroll")
    /\ it_pc' = IF MalformedReplyOutcome.raised THEN "raised" ELSE "stopped"
    /\ it_error' = MalformedReplyOutcome.error
    /\ UNCHANGED <<itFrame, elastic_scroll_id, elastic_page, iter_items,
                   es_cursor, it_out, nIter>>

IterNext ==
    \/ __iter__
    \/ IterMalformedReply
    \/ __next__
    \/ NextMalformedReply

IterSpec == IterInit /\ [][IterNext]_vars

\* ================================== claims about the read-back iterator
\* the keys of the documents the iterator's query selects
Selected == Matching(store, self_from_date)

\* the keys of the documents yielded since the last __iter__
YieldedKeys == {it_out[j].key : j \in 1..Len(it_out)}

\* C21: an iteration over an index holding E documents for the filter yields
\* each of them once and then stops, also when E exceeds the page size; it
\* sends no more requests than the pages of E documents and one more
C21_CursorExhaustion ==
    /\ it_pc \in {"iterating", "stopped"} =>
          /\ YieldedKeys \subseteq Selected
          /\ Cardinality(YieldedKeys) = Len(it_out)
          /\ Len(it_requests) <= Cardinality(Selected) \div ElasticPage + 2
    /\ it_pc = "stopped" => YieldedKeys = Selected

C21_Witness ==
    /\ it_pc = "stopped"
    /\ Len(it_out) > ElasticPage
    /\ Cardinality(DOMAIN store) > Len(it_out)
    /\ Len(it_requests) >= 2

\* C22: __next__ raises StopIteration only with an empty buffer, and after
\* advancing the cursor when a token remains; it raises it when the buffer is
\* empty and no token remains, and when an advance brings no document
C22_StopCondition ==
    [][(it_pc = "iterating" /\ nIter' = nIter /\ it_error' = "") =>
          /\ it_pc' = "stopped" =>
                /\ iter_items = <<>>
                /\ iter_items' = <<>>
                /\ it_out' = it_out
                /\ elastic_scroll_id # None => Len(it_requests') = Len(it_requests) + 1
          /\ iter_items # <<>> =>
                /\ it_pc' = "iterating"
                /\ it_out' = Append(it_out, iter_items[Len(iter_items)])
                /\ it_requests' = it_requests
          /\ (iter_items = <<>> /\ elastic_scroll_id = None) => it_pc' = "stopped"
          /\ (Len(it_requests') > Len(it_requests) /\ it_out' = it_out)
                => it_pc' = "stopped"]_vars

C22_Witness ==
    /\ it_pc = "stopped"
    /\ tokenPolicy = "hits"
    /\ elastic_scroll_id = None
    /\ Len(it_requests) = 3
    /\ Len(it_out) = MaxDocs

\* C23: a reply of the store that does not parse makes _get_elastic_items
\* return an empty list: the iterator raises nothing and the iteration ends
\* normally
C23_MalformedReplyIsEmpty ==
    it_error = "" /\ it_pc # "raised"

\* C24: __iter__ opens a new cursor: it sends the query again (never a
\* scroll of the earlier cursor), buffers the first page of the new cursor
\* and forgets what was yielded; the iteration that follows yields the whole
\* selection again
C24_ReiterationIsFresh ==
    /\ [](it_pc = "stopped" /\ nIter >= 2 => YieldedKeys = Selected)
    /\ [][(nIter' # nIter /\ it_error' = "") =>
             /\ it_requests' = <<"search">>
             /\ es_cursor'.id = es_cursor.id + 1
             /\ it_out' = <<>>
             /\ LET all == SortedDocs(Selected, store)
                IN iter_items' = SubSeq(all, 1, IF Len(all) < ElasticPage
                                               THEN Len(all) ELSE ElasticPage)]_vars

C24_Witness ==
    /\ it_pc = "stopped"
    /\ nIter = 2
    /\ es_cursor.id = 2
    /\ Len(it_out) > ElasticPage

\* ======================================================================
\* The identity generator: uuid(*args) of perceval/backend.py and its use by
\* the metadata decorator. Specification UuidSpec.
\* ======================================================================
MaxStr == 3        \* characters of an argument string
MaxArgs == 2       \* arguments of one direct call of uuid
MaxWrapped == 3    \* raw records one decorated fetch passes to the wrapper

\* the strings of at most n characters over a letter and the separator
RECURSIVE StringsUpTo(_)
StringsUpTo(n) ==
    IF n = 0 THEN {<<>>}
    ELSE LET shorter == StringsUpTo(n - 1)
         IN  shorter \cup {Append(w, c) : w \in shorter, c \in {"a", ":"}}

Strings == StringsUpTo(MaxStr)
NonEmptyStrings == Strings \ {<<>>}

\* the values a caller may pass: strings (the empty one too), an int, None
PyValues == {Str(w) : w \in Strings} \cup {PyInt(<<"7">>), PyNone}

\* the argument lists of at most n values
RECURSIVE ArgListsUpTo(_)
ArgListsUpTo(n) ==
    IF n = 0 THEN {<<>>}
    ELSE LET shorter == ArgListsUpTo(n - 1)
         IN  shorter \cup {Append(a, v) : a \in shorter, v \in PyValues}

\* uuid(*args) called by some caller
DirectCall(args) == [by |-> "caller", args |-> args]

\* uuid(self.origin, self.metadata_id(data)) called by the metadata decorator
\* of a connector of that origin for a record of that identifier
WrapCall(origin, id) == [by |-> "metadata", args |-> <<Str(origin), Str(id)>>]

\* the same call for a record whose metadata_id(data) is the value v, which
\* may be None (no identifier in the record), not a str, or empty
WrapData(origin, v) == [by |-> "metadata", args |-> <<Str(origin), v>>]

\* either one direct call with any argument list, or two records, each of
\* some origin and identifier, to be wrapped, or the raw records of one
\* decorated fetch with identifiers of any value
UuidInit ==
    /\ FeedUnused
    /\ ConnectorUnused
    /\ IteratorUnused
    /\ source = [r \in RecIds |-> 0]
    /\ cache = <<>>
    /\ uu_out = <<>>
    /\ \/ \E args \in ArgListsUpTo(MaxArgs) : uu_in = <<DirectCall(args)>>
       \/ \E o1 \in NonEmptyStrings, i1 \in NonEmptyStrings,
             o2 \in NonEmptyStrings, i2 \in NonEmptyStrings :
             uu_in = <<WrapCall(o1, i1), WrapCall(o2, i2)>>
       \/ \E ids \in [1..MaxWrapped -> PyValues] :
             uu_in = [k \in 1..MaxWrapped |-> WrapData(<<"a">>, ids[k])]

uuFrame == <<cfgVars, worldVars, passVars, obsVars, bzVars, itVars>>

\* what a call of uuid leaves: the digest it returned, or that it raised
Called(call, r) ==
    [by |-> call.by, args |-> call.args, raised |-> r = ValueError,
     digest |-> IF r = ValueError THEN <<>> ELSE r]

\* a direct call of uuid (lines 186-214)
UuidCall ==
    /\ uu_in # <<>>
    /\ Head(uu_in).by = "caller"
    /\ uu_out' = Append(uu_out, Called(Head(uu_in), uuid(Head(uu_in).args)))
    /\ uu_in' = Tail(uu_in)
    /\ UNCHANGED uuFrame

\* uuid raised inside the decorator's generator: the exception left the
\* generator, which is finished from then on
WrapRaised ==
    \E j \in 1..Len(uu_out) : uu_out[j].by = "metadata" /\ uu_out[j].raised

\* a decorator whose loop goes on to the next record after uuid raised
MetadataUuidResuming ==
    /\ uu_in # <<>>
    /\ Head(uu_in).by = "metadata"
    /\ uu_out' = Append(uu_out, Called(Head(uu_in), uuid(Head(uu_in).args)))
    /\ uu_in' = Tail(uu_in)
    /\ UNCHANGED uuFrame

\* one turn of the loop of the metadata decorator (lines 174-182): the uuid
\* of the next raw record is computed (line 178) and the wrapped item is
\* yielded; when uuid raises, the item is not built and the loop is left
MetadataUuid ==
    /\ ~WrapRaised
    /\ uu_in # <<>>
    /\ Head(uu_in).by = "metadata"
    /\ uu_out' = Append(uu_out, Called(Head(uu_in), uuid(Head(uu_in).args)))
    /\ uu_in' = Tail(uu_in)
    /\ UNCHANGED uuFrame

UuidNext == UuidCall \/ MetadataUuid

UuidSpec == UuidInit /\ [][UuidNext]_vars

\* ------------------------------------------------------------------ C25
\* where the text of argument i starts in the joined string, less one
RECURSIVE OffsetOf(_, _)
OffsetOf(args, i) ==
    IF i = 1 THEN 0 ELSE OffsetOf(args, i - 1) + Len(args[i - 1].val) + 1

\* s is the texts of args in their order, one ':' between two neighbours
IsJoined(s, args) ==
    /\ Len(s) = IF Len(args) = 0 THEN 0 ELSE OffsetOf(args, Len(args) + 1) - 1
    /\ \A i \in 1..Len(args) :
          /\ SubSeq(s, OffsetOf(args, i) + 1, OffsetOf(args, i) + Len(args[i].val))
                = args[i].val
          /\ i < Len(args) => s[OffsetOf(args, i + 1)] = ":"

\* an argument uuid must refuse: an empty string, a non-string, None
Refused(v) == v.type # "str" \/ v.val = <<>>

\* C25: uuid is deterministic and strict: what a call returns is fixed by its
\* ordered argument list, being the digest of the arguments joined with
\* ':', and a call with an argument that is an empty string, a non-string
\* or None raises the invalid-argument error and returns no digest.
C25_UuidDeterministicAndStrict ==
    \A k \in 1..Len(uu_out) :
        LET c == uu_out[k]
        IN  IF \E i \in 1..Len(c.args) : Refused(c.args[i])
            THEN c.raised /\ c.digest = <<>>
            ELSE ~c.raised /\ IsJoined(c.digest, c.args)

\* a direct call with a string and None was refused
C25_Witness ==
    \E k \in 1..Len(uu_out) :
        /\ uu_out[k].by = "caller"
        /\ uu_out[k].args = <<Str(<<"a">>), PyNone>>
        /\ uu_out[k].raised

\* ------------------------------------------------------------------ C26
\* C26: uuid is globally unique per (origin, logical record): two wrapped
\* records whose (origin, recordId) pairs differ never receive the same
\* uuid, whatever non-empty strings the origin and the identifier are, ':'
\* included.
C26_UuidUniquePerOriginAndRecord ==
    \A j \in 1..Len(uu_out), k \in 1..Len(uu_out) :
        (/\ uu_out[j].by = "metadata"
         /\ uu_out[k].by = "metadata"
         /\ ~uu_out[j].raised
         /\ ~uu_out[k].raised
         /\ uu_out[j].args # uu_out[k].args)
        => uu_out[j].digest # uu_out[k].digest

C28_CacheBeforeDropFilter ==
    /\ (pc = "done" /\ ~fetch_cache /\ nPass = 1) => cache = DataOf(yielded)
    /\ (pc = "done" /\ fetch_cache) => DataOf(yielded) = cache

\* a complete replay pass yielded a record drop_item rejects and one it keeps
C28_Witness ==
    /\ pc = "done"
    /\ fetch_cache
    /\ nPass = 2
    /\ drop >= 1
    /\ Len(yielded) > drop
    /\ DataOf(yielded) = cache

\* ======================================================================
\* Passes run again after a failure, on connectors of either yield order.
\* Specification RerunSpec: the feeder of an ocean class that fills the id
\* field, on a connector whose fetch takes from_date.
\* ======================================================================
RerunInit ==
    /\ fetch_cache = FALSE
    /\ project = None
    /\ hasFromDate = TRUE
    /\ newestFirst \in BOOLEAN
    /\ dropSet \in SUBSET {1}
    /\ fixSetsId = TRUE
    /\ max_items_bulk \in 1..MaxBulk
    /\ passLimit = MaxPasses
    /\ source = [r \in RecIds |-> 0]
    /\ store = IF fixSetsId
               THEN Put(EmptyStore, ForeignDoc[get_field_unique_id], ForeignDoc)
               ELSE EmptyStore
    /\ cache = <<>>
    /\ pc = "idle"
    /\ last_update = None
    /\ items = <<>>
    /\ items_pack = <<>>
    /\ drop = 0
    /\ nPass = 0
    /\ arg_from_date = None
    /\ arg_offset = None
    /\ calls = <<>>
    /\ yielded = <<>>
    /\ upserts = <<>>
    /\ error = ""
    /\ submitted = EmptyStore
    /\ boundaryQuery = None
    /\ storeAtStart = EmptyStore
    /\ quietRerun = FALSE
    /\ afterAbort = FALSE
    /\ prevYielded = {}
    /\ srcTouched = FALSE
    /\ ConnectorUnused
    /\ IteratorUnused
    /\ UuidUnused

RerunSpec == RerunInit /\ [][Next]_vars

\* record r of the source has a document of the origin in the store
InStore(r) ==
    \E k \in DOMAIN store :
        store[k].origin = Origin /\ store[k].data = RawRecord(r, source)

\* ------------------------------------------------------------------ C30
\* C30: after a feed pass that aborted partway is followed by a complete
\* pass with no override over the same unchanged source, every source record
\* that drop_item does not reject is in the store, whatever order the
\* connector yields records in.
C30_RerunLosesNoRecord ==
    (afterAbort /\ PlainLive /\ pc = "done" /\ ~srcTouched) =>
        \A r \in RecIds : (source[r] # 0 /\ r \notin dropSet) => InStore(r)

\* ======================================================================
\* The connector run from the command line: BugzillaCommand of
\* perceval/backends/bugzilla.py. Specification CmdSpec: every generator is
\* started and consumed by the run of a command.
\* ======================================================================
\* Cache.clean(): all cached content is discarded
CacheClean(blocks) == <<>>

\* Cache.backup(): the content saved is the current one
CacheBackup(blocks) == blocks

\* Cache.recover(): the content is the one last saved
CacheRecover(blocks, saved) == saved

\* the exceptions of a generator that are IOError instances: those of the
\* requests library (raise_for_status, a connection that fails); the errors
\* of perceval (ParseError, CacheError, BackendError) are not
IsIOError(e) == e = "HTTPError"

\* what no step of a command touches
cmdFrame == <<cfgVars, store, passVars, obsVars, source, itVars, uuVars,
              version_ok, cache_given, max_bugs, page_limit, suspended,
              purged>>

\* BugzillaCommand(*args), lines 318-344: unless no_cache is given the cache
\* is cleaned (clean_cache) or backed up, and a new connector is built on it
BugzillaCommand__init__(clean_cache) ==
    /\ Resting
    /\ NotRun
    /\ nOps < MaxOps
    /\ cmd_pc' = "command"
    /\ recovered' = FALSE
    /\ cache' = IF cache_given /\ clean_cache THEN CacheClean(cache) ELSE cache
    /\ cache_backup' = IF cache_given /\ ~clean_cache THEN CacheBackup(cache)
                       ELSE cache_backup
    /\ version' = None
    /\ cache_queue' = <<>>
    /\ op' = "none"
    /\ bpc' = "idle"
    /\ list_from' = 0
    /\ buglist' = <<>>
    /\ chunk_i' = 0
    /\ bugs' = <<>>
    /\ cache_items' = <<>>
    /\ out' = <<>>
    /\ trace' = <<>>
    /\ bz_error' = ""
    /\ fetched' = None
    /\ UNCHANGED <<cmdFrame, nOps, intact, cacheBase>>

\* run, lines 353-356: the generator the for loop of line 359 consumes
run ==
    /\ cmd_pc = "command"
    /\ \/ \E from_date \in FromArgs : fetch(from_date)
       \/ fetch_from_cache

\* run, lines 362-367: the generator raised. An IOError is reported as it
\* is; for any other exception the cache, if there is one, is recovered first
RunExcept ==
    /\ cmd_pc = "command"
    /\ bpc = "error"
    /\ cmd_pc' = "failed"
    /\ IF ~IsIOError(bz_error) /\ cache_given
       THEN /\ cache' = CacheRecover(cache, cache_backup)
            /\ recovered' = TRUE
       ELSE UNCHANGED <<cache, recovered>>
    /\ UNCHANGED <<cmdFrame, version, cache_queue, op, bpc, list_from, buglist,
                   chunk_i, bugs, cache_items, out, trace, bz_error, nOps,
                   intact, fetched, cacheBase, cache_backup>>

\* run, lines 358-361: the generator is exhausted and run returns
RunReturn ==
    /\ cmd_pc = "command"
    /\ bpc = "done"
    /\ cmd_pc' = "completed"
    /\ UNCHANGED <<cmdFrame, cache, version, cache_queue, op, bpc, list_from,
                   buglist, chunk_i, bugs, cache_items, out, trace, bz_error,
                   nOps, intact, fetched, cacheBase, cache_backup, recovered>>

CmdNext ==
    \/ \E clean_cache \in BOOLEAN : BugzillaCommand__init__(clean_cache)
    \/ run
    \/ FetchListPage
    \/ VersionUnknown
    \/ FetchChunkDetails
    \/ FetchBugActivity
    \/ FetchChunkFlush
    \/ FetchEnd
    \/ RequestRaises
    \/ ReplyInvalid
    \/ ReplayDetails
    \/ ReplayActivity
    \/ RunExcept
    \/ RunReturn

CmdSpec == BzInit /\ [][CmdNext]_vars

\* ------------------------------------------------------------------ C29
\* C29: when the run of a BugzillaCommand with a cache fails partway through
\* a fetch cycle (a network, parse or cache error raised while records are
\* produced), cache.recover() is called before the failure is reported, so
\* that the cache is back to its backed-up content; when the run completes,
\* recover is not called.
C29_RecoverOnFailure ==
    [][/\ (cmd_pc = "command" /\ cmd_pc' = "failed" /\ cache_given) =>
             (recovered' /\ cache' = cache_backup)
       /\ (cmd_pc = "command" /\ cmd_pc' = "completed") =>
             (~recovered' /\ cache' = cache)]_vars

\* ======================================================================
\* The batch a pass holds when the connector raises (Spec)
\* ======================================================================
\* ------------------------------------------------------------------ C31
\* C31: when a pass aborts because the connector raised, the records already
\* yielded and not dropped but not yet upserted are fewer than the bulk
\* size: a batch that has reached the bulk size is committed before feed
\* pulls the next record from the connector.
C31_FullBatchCommittedBeforePull ==
    (pc = "aborted" /\ error = "ConnectorError") => Len(items_pack) < max_items_bulk

\* ======================================================================
\* The boundary over longer sequences of passes. Specification
\* BoundarySpec: one pass more than in Spec, for the feeder of an ocean class
\* that fills the id field and drops nothing, on a connector whose fetch
\* takes from_date.
\* ======================================================================
BoundaryInit ==
    /\ fetch_cache = FALSE
    /\ project = None
    /\ hasFromDate = TRUE
    /\ newestFirst = FALSE
    /\ dropSet = {}
    /\ fixSetsId = TRUE
    /\ max_items_bulk \in 1..MaxBulk
    /\ passLimit = MaxPasses + 1
    /\ source = [r \in RecIds |-> 0]
    /\ store = IF fixSetsId
               THEN Put(EmptyStore, ForeignDoc[get_field_unique_id], ForeignDoc)
               ELSE EmptyStore
    /\ cache = <<>>
    /\ pc = "idle"
    /\ last_update = None
    /\ items = <<>>
    /\ items_pack = <<>>
    /\ drop = 0
    /\ nPass = 0
    /\ arg_from_date = None
    /\ arg_offset = None
    /\ calls = <<>>
    /\ yielded = <<>>
    /\ upserts = <<>>
    /\ error = ""
    /\ submitted = EmptyStore
    /\ boundaryQuery = None
    /\ storeAtStart = EmptyStore
    /\ quietRerun = FALSE
    /\ afterAbort = FALSE
    /\ prevYielded = {}
    /\ srcTouched = FALSE
    /\ ConnectorUnused
    /\ IteratorUnused
    /\ UuidUnused

BoundarySpec == BoundaryInit /\ [][Next]_vars

\* ------------------------------------------------------------------ C32
\* C32: over any sequence of passes on one origin (live, with an override,
\* replayed from the cache, aborted), the boundary the store reports for the
\* origin never decreases, the update times of the source never decreasing.
C32_BoundaryNeverDecreases ==
    [][MaxStoredFor(store', Origin) >= MaxStoredFor(store, Origin)]_vars

\* ======================================================================
\* The offset given to a pass (Spec)
\* ======================================================================
\* ------------------------------------------------------------------ C33
\* C33 as stated: when an offset is given to a live pass, fetch is called with that
\* offset only and with no date lower bound, even when the store reports a
\* boundary or an override is given too. (A call fetch() is taken as the
\* call fetch(offset=0): both list the source from its first record.)
C33_GivenOffsetOnly ==
    (InPass /\ ~fetch_cache /\ arg_offset # None) =>
        /\ Len(calls) = 1
        /\ calls[1].method = "fetch"
        /\ calls[1].from_date = None
        /\ \/ calls[1].offset = arg_offset
           \/ arg_offset = Some(0) /\ calls[1].offset = None

\* C33, amended: when a non-zero offset is given to a live pass, fetch is
\* called with that offset only and with no date lower bound, even when the
\* store reports a boundary or an override is given too; an offset of 0 is
\* taken as no offset: fetch gets no offset, and gets as from_date the
\* override, else the boundary, if there is one and fetch takes from_date.
C33_NonZeroOffsetOnly ==
    (InPass /\ ~fetch_cache /\ arg_offset # None) =>
        IF arg_offset[1] # 0
        THEN calls = <<FetchCall(None, arg_offset)>>
        ELSE LET bound == IF arg_from_date # None THEN arg_from_date
                          ELSE last_update
             IN calls = <<FetchCall(IF hasFromDate /\ bound # None
                                    THEN Some(replace_tzinfo_None(bound[1]))
                                    ELSE None,
                                    None)>>

\* a pass given a non-zero offset and an override, on a store that reports
\* a boundary, received a record
C33_Witness ==
    /\ InPass /\ ~fetch_cache /\ hasFromDate
    /\ arg_offset = Some(1)
    /\ arg_from_date # None
    /\ last_update # None
    /\ calls = <<FetchCall(None, Some(1))>>
    /\ Len(yielded) >= 1

\* ======================================================================
\* List paging against a server that caps its pages (BzSpec)
\* ======================================================================
\* the list paging of the current fetch is over
ListBuilt == op = "fetch" /\ bpc \in {"chunks", "bugs", "yield", "done", "abandoned"}

\* ------------------------------------------------------------------ C34
\* C34: for a static source, the candidate list built by list paging holds
\* every record whose change time is at or after from_date exactly once,
\* even when the source caps the size of a page and several records share
\* the change time of a page's last record.
C34_ListComplete ==
    ListBuilt =>
        LET wanted == {r \in RecIds : source[r] # 0 /\ source[r] >= ListQueries[1].arg}
        IN /\ \A r \in wanted :
                 Cardinality({i \in 1..Len(buglist) : buglist[i].id = IdStr(r)}) = 1
           /\ Len(buglist) = Cardinality(wanted)

\* ======================================================================
\* Termination of a fetch that is consumed to its end. Specification
\* BzLiveSpec: the consumer of a live fetch keeps asking for the next record.
\* ======================================================================
\* a step of the generator of fetch, run when the consumer asks for a record
FetchStep ==
    \/ FetchListPage
    \/ VersionUnknown
    \/ FetchChunkDetails
    \/ FetchBugActivity
    \/ FetchChunkFlush
    \/ FetchEnd

BzLiveSpec == BzSpec /\ WF_vars(FetchStep)

\* the generator of fetch is being consumed
FetchRunning == op = "fetch" /\ bpc \in {"paging", "chunks", "bugs", "yield"}

\* ------------------------------------------------------------------ C35
\* C35: for a source with finitely many records whose list pages are sorted
\* by change time and hold only records at or after the lower bound asked
\* for, the lower bounds of the successive list queries of a fetch strictly
\* increase, and a fetch that is consumed comes to its end.
C35_PagingTerminates ==
    /\ [](op = "fetch" =>
            \A k \in 1..(Len(ListQueries) - 1) :
                ListQueries[k + 1].arg > ListQueries[k].arg)
    /\ (FetchRunning ~> ~FetchRunning)

\* a fetch came to its end after three list queries
C35_Witness ==
    /\ FetchDone
    /\ bpc = "done"
    /\ Len(ListQueries) = 3
    /\ ListQueries[1].arg < ListQueries[2].arg
    /\ ListQueries[2].arg < ListQueries[3].arg

\* ======================================== the order of a read-back iteration
\* the documents the cursor of the running iteration returns, in its order
CursorOrder == SortedDocs(Selected, store)

\* C36: across one read-back iteration the documents are yielded in the order
\* the cursor returned them, within each page and across pages: what has been
\* yielded is a prefix of the cursor's ascending sequence, so it is ascending
\* in the date field
C36_YieldedInCursorOrder ==
    (it_pc \in {"iterating", "stopped"} /\ it_error = "") =>
        /\ Len(it_out) <= Len(CursorOrder)
        /\ it_out = SubSeq(CursorOrder, 1, Len(it_out))
        /\ \A j \in 1..(Len(it_out) - 1) :
              it_out[j].metadata__updated_on.iso <= it_out[j + 1].metadata__updated_on.iso

\* ============================ a record without a usable identifier (C37)
\* the value is no identifier: it is None, not a str, or the empty string
BadId(v) == v = PyNone \/ v.type # "str" \/ Len(v.val) = 0

\* C37: when the recordId of a raw record is empty, missing or not a string,
\* the wrapping step raises the invalid-argument error and yields no item for
\* that record; no later record of the same fetch is wrapped or yielded, and
\* the items yielded before stay as they were
C37_BadIdEndsTheFetch ==
    /\ [][(uu_in # <<>> /\ Head(uu_in).by = "metadata" /\ ~WrapRaised
              /\ BadId(Head(uu_in).args[2])) =>
             /\ Len(uu_out') = Len(uu_out) + 1
             /\ SubSeq(uu_out', 1, Len(uu_out)) = uu_out
             /\ uu_out'[Len(uu_out')].raised
             /\ uu_out'[Len(uu_out')].digest = <<>>]_vars
    /\ [][WrapRaised => uu_out' = uu_out]_vars
    /\ [](\A j \in 1..Len(uu_out) :
             (uu_out[j].by = "metadata" /\ ~uu_out[j].raised)
                => (~BadId(uu_out[j].args[2]) /\ Len(uu_out[j].digest) > 0))

\* the first record was yielded, the second has no identifier and raised,
\* and a third record with a good identifier is still waiting
C37_Witness ==
    /\ Len(uu_out) = 2
    /\ ~uu_out[1].raised
    /\ uu_out[2].raised
    /\ uu_out[2].args[2] = PyNone
    /\ Len(uu_in) = 1
    /\ ~BadId(uu_in[1].args[2])

\* ======================================================================
\* Two fetch generators of one connector consumed in turns. They share
\* self.cache_queue and self.cache (backend.py lines 66-68); each has its own
\* frame. Specification TwoSpec.
\* ======================================================================
\* the frame of the generator being consumed
Frame ==
    [op |-> op, bpc |-> bpc, list_from |-> list_from, buglist |-> buglist,
     chunk_i |-> chunk_i, bugs |-> bugs, out |-> out, bz_error |-> bz_error]

\* fetch(from_date), lines 80-86, called and first asked for a record while
\* an earlier fetch generator of the connector waits at its yield (line
\* 104): the earlier frame is kept, the shared queue is purged (line 86)
fetchSecond(from_date) ==
    /\ op = "fetch"
    /\ bpc = "yield"
    /\ suspended = None
    /\ nOps < MaxOps
    /\ suspended' = Some(Frame)
    /\ nOps' = nOps + 1
    /\ list_from' = IF from_date = None THEN DEFAULT_DATETIME.t ELSE from_date[1].t
    /\ cache_queue' = _purge_cache_queue(cache_queue)
    /\ purged' = Len(cache_queue)
    /\ buglist' = <<>>
    /\ chunk_i' = 0
    /\ bugs' = <<>>
    /\ out' = <<>>
    /\ bz_error' = ""
    /\ bpc' = "paging"
    /\ UNCHANGED <<cfgVars, store, passVars, obsVars, source, itVars, uuVars,
                   version_ok, cmd_pc, cache_backup, recovered,
                   cache, cache_given, max_bugs, page_limit, version, intact,
                   op, cache_items, trace, fetched, cacheBase>>

\* the consumer turns to the other generator: the one it leaves waits at its
\* yield or is over, the one it takes up goes on from its yield
SwitchGenerator ==
    /\ suspended # None
    /\ op = "fetch"
    /\ bpc \in {"yield", "done"}
    /\ suspended' = IF bpc = "yield" THEN Some(Frame) ELSE None
    /\ op' = suspended[1].op
    /\ bpc' = suspended[1].bpc
    /\ list_from' = suspended[1].list_from
    /\ buglist' = suspended[1].buglist
    /\ chunk_i' = suspended[1].chunk_i
    /\ bugs' = suspended[1].bugs
    /\ out' = suspended[1].out
    /\ bz_error' = suspended[1].bz_error
    /\ UNCHANGED <<cfgVars, store, passVars, obsVars, source, itVars, uuVars,
                   version_ok, cmd_pc, cache_backup, recovered, cache_queue,
                   cache, cache_given, max_bugs, page_limit, version, intact,
                   nOps, cache_items, trace, fetched, cacheBase, purged>>

\* a connector whose server shows its version
TwoInit == BzInit /\ version_ok

TwoNext ==
    \/ \E from_date \in FromArgs : fetch(from_date)
    \/ \E from_date \in FromArgs : fetchSecond(from_date)
    \/ SwitchGenerator
    \/ FetchListPage
    \/ FetchChunkDetails
    \/ FetchBugActivity
    \/ FetchChunkFlush
    \/ FetchEnd
    \/ fetch_from_cache
    \/ ReplayDetails
    \/ ReplayActivity

TwoSpec == TwoInit /\ [][TwoNext]_vars

\* every generator started so far was consumed to its end
AllConsumed == suspended = None /\ bpc = "done"

\* C38: when a second fetch is started on a connector while an earlier fetch
\* sequence of it is partly consumed, and the two sequences are consumed in
\* any interleaving, the cache still holds whole chunk groups only (a details
\* block followed by one activity block per record), and a later replay
\* raises no CacheError
C38_InterleavedFetchesKeepGroups ==
    cache_given =>
        /\ AllConsumed => WholeGroups(cache)
        /\ (op = "fetch_from_cache" /\ suspended = None) => bz_error # "CacheError"

\* ================================= the purge at the start of fetch (C39)
\* the entries of tr that follow its last flush
RECURSIVE SinceFlush(_)
SinceFlush(tr) ==
    IF tr = <<>> THEN <<>>
    ELSE IF tr[Len(tr)].kind = "flush" THEN <<>>
    ELSE Append(SinceFlush(SubSeq(tr, 1, Len(tr) - 1)), tr[Len(tr)])

\* the replies the running fetch got to its own details and activity
\* requests since its last flush
OwnPending ==
    LET own == OfKinds(SinceFlush(trace), {"details", "activity"})
    IN Cardinality({k \in 1..Len(own) : own[k].status = 200})

\* C39: fetch starts by emptying the cache queue, so the queue of a running
\* fetch holds only the blocks that fetch itself received since its last
\* flush and only those are ever written to the cache, whatever an earlier
\* fetch that was abandoned or aborted inside a chunk had left queued; on a
\* connector without a cache the queue stays empty and nothing is stored
C39_FetchPurgesQueue ==
    /\ [][(nOps' # nOps /\ op' = "fetch") => cache_queue' = <<>>]_vars
    /\ []((op = "fetch" /\ cache_given) => Len(cache_queue) = OwnPending)
    /\ [][(op = "fetch" /\ nOps' = nOps /\ Len(cache') > Len(cache)) =>
             (cache' = cache \o cache_queue /\ Len(cache_queue) = OwnPending)]_vars
    /\ [](~cache_given =>
             /\ cache_queue = <<>>
             /\ cache = <<>>
             /\ OfKinds(trace, {"store"}) = <<>>)

\* a fetch that purged the two blocks an earlier fetch had left queued has
\* been consumed to its end and has stored blocks of its own
C39_Witness ==
    /\ op = "fetch"
    /\ bpc = "done"
    /\ cache_given
    /\ purged >= 2
    /\ Len(cache) > cacheBase
    /\ WholeGroups(cache)

====
